---- MODULE Spec2Model ----
(***************************************************************************)
(* Process registry, run supervisor and control interface of the ElizaOS   *)
(* desktop shell (src-tauri/src/commands/process.rs, models.rs).           *)
(*                                                                         *)
(* One streaming run is a supervisor task (execute_eliza_run_streaming),   *)
(* two line-reader tasks, the child process and a delayed cleanup task.    *)
(* The registry is HashMap<String, Arc<Mutex<ProcessHandle>>> behind an    *)
(* RwLock; every handler that touches an entry holds the registry lock for *)
(* its whole body, so each handler body is one atomic step.                *)
(*                                                                         *)
(* A non-streaming run (execute_eliza_run_simple) is the calling task      *)
(* blocked in wait_with_output and the child; it never touches the         *)
(* registry.                                                               *)
(***************************************************************************)
EXTENDS Integers, Sequences, FiniteSets, TLC

\* ------------------------------------------------------------------ bounds
\* runs submitted
NumRuns == 2
\* lines the children write, over all runs and both streams
MaxLines == 1
\* OS faults injected (a read error on a pipe, a failing wait, a reused pid,
\* a signal sent to a child from outside this program)
MaxFaults == 1
\* runs for which the OS accepts a signal, over all runs still observed
MaxSignals == 1

RunIds == 1..NumRuns
\* RunSpec.id values a caller may supply
SpecIds == {9}

\* ------------------------------------------------------------- Option<T>
None == <<>>
Some(x) == <<x>>
IsSome(o) == o # None

\* ------------------------------------------------------------- RunStatus
RunStatus == {"Running", "Completed", "Failed", "Killed"}
Terminal == {"Completed", "Failed", "Killed"}

\* the k-th line the child writes to a stream
LineNames == <<"A", "B", "C", "D", "E">>
Line(k) == LineNames[k]

\* ------------------------------------------------------------- RunResult
RunSpec_new(id) == [id |-> id]

RunResult_new(spec, started_at) ==
    [id |-> spec.id, spec |-> spec, started_at |-> started_at,
     ended_at |-> None, exit_code |-> None, stdout |-> <<>>, stderr |-> <<>>,
     duration_ms |-> None, status |-> "Running", pid |-> None]

\* --------------------------------------------------------- ProcessHandle
ProcessHandle_new(run_result) == [run_result |-> run_result, can_control |-> TRUE]

update_result(h, new_result) == [h EXCEPT !.run_result = new_result]

mark_completed_keeps_control(h) == h
mark_completed(h) == [h EXCEPT !.can_control = FALSE]

\* --------------------------------------------------- the OS, as seen here
\* the pid the OS gives the child of run r
PidOf(r) == 100 + r
\* std::process::ExitStatus: "exit0", "exit1" (exit codes) or "signal"
success_any_code(st) == st \in {"exit0", "exit1"}
success(st) == st = "exit0"
code(st) == IF st = "exit0" THEN Some(0) ELSE IF st = "exit1" THEN Some(1) ELSE None

VARIABLES
    registry,       \* run id -> Some(ProcessHandle), None where the map has no entry
    pc,             \* supervisor position per run
    run_result,     \* the supervisor's local run_result per run
    start_time,     \* Instant captured before spawn
    status_result,  \* what child.wait() returned
    proc,           \* the child process
    readers,        \* the two line-reader tasks
    events,         \* "log-event" emissions per run, in order
    cleanup,        \* the delayed cleanup task
    signals,        \* signals the OS accepted for the run's pid
    clock,          \* clock readings taken for the run so far
    faults,         \* OS faults injected so far
    control_result, \* per run, the RunResult returned by the stop/kill call that delivered a signal
    resp,           \* the ApiResponse this step returned to a caller, NoResp if none
    probes,         \* the --version probes this step ran, in order, with their outcome
    call            \* the last application of a builder or sanitizer: function, input, output

\* the variables of post_telemetry_event, of the terminal commands and of the
\* registry locks
VARIABLES
    telemetry,      \* one call of post_telemetry_event: position, attempts, sleeps
    term_registry,  \* terminal command id -> Some(TerminalProcess), None if absent
    term_executing, \* ids whose execute_terminal_command has not returned
    term_next,      \* the next fresh terminal command id
    term_clock,     \* chrono::Utc::now(), in ticks
    term_budget,    \* unusual terminal events so far
    term_resp,      \* what the last terminal command returned
    drain,          \* the execute_shell_command / execute_binary_command followed in detail
    lock_ops,       \* operations on the process registry and the locks they hold
    rw,             \* the registry RwLock: holders and FIFO queue
    mu              \* the per-run Mutex: holder and FIFO queue

TelemetryVars == <<telemetry>>
TerminalVars == <<term_registry, term_executing, term_next, term_clock,
                  term_budget, term_resp, drain>>
LockVars == <<lock_ops, rw, mu>>
\* everything but the process registry and its supervisor
FarVars == <<call, TelemetryVars, TerminalVars, LockVars>>

vars == <<registry, pc, run_result, start_time, status_result, proc, readers,
          events, cleanup, signals, clock, faults, control_result, resp, probes,
          call, TelemetryVars, TerminalVars, LockVars>>

\* ------------------------------------------------------------ the registry
init_process_registry == [r \in RunIds |-> None]
contains_key(reg, id) == id \in RunIds /\ IsSome(reg[id])
get(reg, id) == reg[id][1]
insert_dropped(reg, id, h) == reg
insert(reg, id, h) == [reg EXCEPT ![id] = Some(h)]
remove_dropped(reg, id) == reg
remove_all(reg, id) == [k \in DOMAIN reg |-> None]
remove(reg, id) == [reg EXCEPT ![id] = None]

\* --------------------------------------------------------------- LogEvent
LogEvent(kind, content) == [kind |-> kind, content |-> content]
emit_prepend(ev, r, e) == [ev EXCEPT ![r] = <<e>> \o @]
emit(ev, r, e) == [ev EXCEPT ![r] = Append(@, e)]

\* ------------------------------------------------------------ ApiResponse
\* message: the AppError a START_ERROR response reports, "" otherwise
ApiResponse_success(op, id, data, sig) ==
    [op |-> op, id |-> id, code |-> "OK", data |-> Some(data),
     signal |-> sig, delivered |-> sig # "none", message |-> ""]
ApiResponse_error(op, id, errcode, sig) ==
    [op |-> op, id |-> id, code |-> errcode, data |-> None,
     signal |-> sig, delivered |-> FALSE, message |-> ""]
\* Err(e) of execute_eliza_run_*: START_ERROR, "Failed to start run: {e}"
StartError(op, id, e) ==
    [ApiResponse_error(op, id, "START_ERROR", "none") EXCEPT !.message = e]

\* no child; reader tasks not started or joined
NoProc == [state |-> "none", outW |-> 0, errW |-> 0, exit |-> "none"]
NoReaders == [out |-> [lines |-> <<>>, done |-> FALSE],
              err |-> [lines |-> <<>>, done |-> FALSE]]

NoResp == [op |-> "none", id |-> 0, code |-> "none", data |-> None,
           signal |-> "none", delivered |-> FALSE, message |-> ""]

\* no builder or sanitizer applied
NoCall == [fn |-> "none", input |-> <<>>, output |-> <<>>]

\* ----------------------------------------------------- resolve_eliza_command
\* outcome of running `<cmd> --version`: "ok" (ran, exit status success),
\* "fail" (ran, other exit status), "missing" (Command::output is Err)
ProbeOutcomes == {"ok", "fail", "missing"}
Probe(cmd, outcome) == [cmd |-> cmd, ok |-> outcome = "ok"]

\* p1: outcome a probe of elizaos has, p2: outcome a probe of npx has.
\* probes: the probes run, in order; result: Some((eliza_cmd, use_npx)) or
\* None for Err(AppError::CliNotFound)
resolve_npx_first(p1, p2) ==
    IF p2 = "ok"
    THEN [probes |-> <<Probe("npx", p2)>>,
          result |-> Some([eliza_cmd |-> "npx", use_npx |-> TRUE])]
    ELSE [probes |-> <<Probe("npx", p2), Probe("elizaos", p1)>>,
          result |-> IF p1 = "ok"
                     THEN Some([eliza_cmd |-> "elizaos", use_npx |-> FALSE])
                     ELSE None]
resolve_eliza_command(p1, p2) ==
    IF p1 = "ok"
    THEN [probes |-> <<Probe("elizaos", p1)>>,
          result |-> Some([eliza_cmd |-> "elizaos", use_npx |-> FALSE])]
    ELSE IF p2 = "ok"
    THEN [probes |-> <<Probe("elizaos", p1), Probe("npx", p2)>>,
          result |-> Some([eliza_cmd |-> "npx", use_npx |-> TRUE])]
    ELSE [probes |-> <<Probe("elizaos", p1), Probe("npx", p2)>>,
          result |-> None]

\* --------------------------------------------------------- build_eliza_args
\* caller arguments in RunSpec.args
MaxArgs == 2
RunMode == {"Doctor", "Run", "Eval", "Custom"}
CallerArgs == {"a.json", "--verbose"}
ArgLists == UNION {[1..n -> CallerArgs] : n \in 0..MaxArgs}
CharacterFiles == {None, Some("c.json")}
\* the fields of a RunSpec that build_eliza_args reads
BuilderSpecs == [mode : RunMode, args : ArgLists, character_file : CharacterFiles]

build_eliza_args(spec, use_npx) ==
    LET prefix == IF use_npx THEN <<"-y", "@elizaos/cli@latest">> ELSE <<>>
        by_mode ==
            CASE spec.mode = "Doctor" -> <<"test", "--type", "component", "--skip-build">>
              [] spec.mode = "Run" ->
                    <<"start">> \o (IF spec.args # <<>>
                                    THEN <<"--character", spec.args[1]>>
                                    ELSE <<>>)
              [] spec.mode = "Eval" -> <<"dev">>
              [] spec.mode = "Custom" ->
                    IF spec.args # <<>> THEN <<spec.args[1]>> ELSE <<"--help">>
        character ==
            IF IsSome(spec.character_file)
            THEN <<"--character", spec.character_file[1]>>
            ELSE <<>>
        skip_count == IF spec.mode = "Custom" /\ spec.args # <<>> THEN 1 ELSE 0
    IN prefix \o by_mode \o character
              \o SubSeq(spec.args, skip_count + 1, Len(spec.args))

\* ------------------------------------------------------------ sanitization
\* A string value is described by what the sanitizers look at: whether it
\* starts with "eliza_", whether it contains "api", and its length in bytes.
SecretPrefixLen == 6
ShownLen == 12
MinRedactLen == 20
KeyLen == 70
StrLens == {0, 4, 9, ShownLen, 16, MinRedactLen, 21, KeyLen}
Strs ==
    {v \in [secret : BOOLEAN, api : BOOLEAN, len : StrLens] :
        /\ v.secret => v.len >= SecretPrefixLen
        /\ v.api => v.len >= 3
        /\ (v.secret /\ v.api) => v.len >= SecretPrefixLen + 3}

\* What a sanitizer puts in the log for one value: the number of leading
\* bytes of the raw value, followed by "***" or not.
Verbatim(v) == [shown |-> v.len, stars |-> FALSE]
Truncated == [shown |-> ShownLen, stars |-> TRUE]
Masked == [shown |-> 0, stars |-> TRUE]
\* &arg[..12] on a value shorter than 12 bytes: the slice panics
Panics == [panic |-> TRUE, items |-> <<>>]
Logged(items) == [panic |-> FALSE, items |-> items]

\* sanitize_args_for_logging, one argument
sanitize_arg_for_logging(v) ==
    IF v.secret /\ v.len > MinRedactLen THEN Truncated
    ELSE IF v.api /\ v.len > MinRedactLen THEN Masked
    ELSE Verbatim(v)

sanitize_args_for_logging(args) ==
    Logged([i \in 1..Len(args) |-> sanitize_arg_for_logging(args[i])])

\* the safe_args closure of execute_eliza_run_simple / _streaming
safe_args(args) ==
    IF \E i \in 1..Len(args) : args[i].secret /\ args[i].len < ShownLen
    THEN Panics
    ELSE Logged([i \in 1..Len(args) |->
                    IF args[i].secret THEN Truncated ELSE Verbatim(args[i])])

\* SandboxConfig: base_url is "" (empty), "ftp" (not starting with http) or "http"
Configs == [base_url : {"", "ftp", "http"}, api_key : Strs,
            default_model : {None, Some("gpt-4")}]

is_valid(config) ==
    /\ config.base_url # ""
    /\ config.api_key.len # 0
    /\ config.base_url = "http"
    /\ config.api_key.secret
    /\ config.api_key.len = KeyLen

InvalidConfigs == {config \in Configs : ~is_valid(config)}

\* sanitize_config_for_log: base_url and default_model verbatim, the first 12
\* bytes of api_key
sanitize_config_for_log(config) ==
    IF config.api_key.len < ShownLen
    THEN Panics
    ELSE Logged(<<Truncated>>)

\* one application of a builder or sanitizer to a drawn input
Called(fn, input, output) == [fn |-> fn, input |-> input, output |-> output]

ProcessVars ==
    <<registry, pc, run_result, start_time, status_result, proc, readers,
      events, cleanup, signals, clock, faults, control_result, resp, probes>>

ApplyBuildArgs(spec, use_npx) ==
    /\ call' = Called("build_eliza_args", [spec |-> spec, use_npx |-> use_npx],
                      build_eliza_args(spec, use_npx))
    /\ UNCHANGED ProcessVars
    /\ UNCHANGED <<TelemetryVars, TerminalVars, LockVars>>

ApplySanitizeArgs(args) ==
    /\ call' = Called("sanitize_args_for_logging", args,
                      sanitize_args_for_logging(args))
    /\ UNCHANGED ProcessVars
    /\ UNCHANGED <<TelemetryVars, TerminalVars, LockVars>>

ApplySafeArgs(args) ==
    /\ call' = Called("safe_args", args, safe_args(args))
    /\ UNCHANGED ProcessVars
    /\ UNCHANGED <<TelemetryVars, TerminalVars, LockVars>>

ApplySanitizeConfig(config) ==
    /\ call' = Called("sanitize_config_for_log", <<config.api_key>>,
                      sanitize_config_for_log(config))
    /\ UNCHANGED ProcessVars
    /\ UNCHANGED <<TelemetryVars, TerminalVars, LockVars>>

\* ------------------------------------------------------ post_telemetry_event
MAX_RETRY_ATTEMPTS == 3
\* RETRY_DELAY, in milliseconds
RETRY_DELAY == 1000
\* the errors send_telemetry_request maps a failed request or response to
SendErrors == {"timeout", "connect", "auth", "rate"}
SendOutcomes == {"ok"} \cup SendErrors

\* pc: "idle", "sending" (in send_telemetry_request), "sleeping", "returned";
\* log: the sends and sleeps made, in order; result: Some("ok") or Some(error)
NoTelemetry ==
    [pc |-> "idle", attempt |-> 0, log |-> <<>>, last_error |-> None, result |-> None]
Sent(attempt, outcome) == [kind |-> "send", attempt |-> attempt, outcome |-> outcome, ms |-> 0]
Slept(ms) == [kind |-> "sleep", attempt |-> 0, outcome |-> "none", ms |-> ms]

\* tokio::time::sleep(RETRY_DELAY * attempt as u32)
retry_delay_fixed(attempt) == RETRY_DELAY
retry_delay(attempt) == RETRY_DELAY * attempt

\* the for loop moves on to the next attempt, or falls out of its range
\* 1..=MAX_RETRY_ATTEMPTS and returns Err(last_error)
NextAttempt(t) ==
    IF t.attempt + 1 <= MAX_RETRY_ATTEMPTS
    THEN [t EXCEPT !.pc = "sending", !.attempt = t.attempt + 1]
    ELSE [t EXCEPT !.pc = "returned",
                   !.result = IF IsSome(t.last_error) THEN t.last_error
                              ELSE Some("All telemetry attempts failed")]

\* Client::builder().build() is Ok(client) or Err: the latter returns at once
post_telemetry_event(built) ==
    /\ telemetry.pc = "idle"
    /\ telemetry' = IF built
                    THEN [telemetry EXCEPT !.pc = "sending", !.attempt = 1]
                    ELSE [telemetry EXCEPT !.pc = "returned",
                                           !.result = Some("Failed to create HTTP client")]
    /\ UNCHANGED <<call, ProcessVars, TerminalVars, LockVars>>

\* send_telemetry_request(...).await returns Ok(()) or Err(e)
send_telemetry_request(outcome) ==
    /\ telemetry.pc = "sending"
    /\ LET sent == [telemetry EXCEPT !.log = Append(@, Sent(telemetry.attempt, outcome))]
           failed == [sent EXCEPT !.last_error = Some(outcome)]
       IN telemetry' =
            IF outcome = "ok"
            THEN [sent EXCEPT !.pc = "returned", !.result = Some("ok")]
            ELSE IF telemetry.attempt < MAX_RETRY_ATTEMPTS
                 THEN [failed EXCEPT !.pc = "sleeping",
                                     !.log = Append(@, Slept(retry_delay(telemetry.attempt)))]
                 ELSE NextAttempt(failed)
    /\ UNCHANGED <<call, ProcessVars, TerminalVars, LockVars>>

\* the sleep before the next attempt ends
retry_sleep_elapsed ==
    /\ telemetry.pc = "sleeping"
    /\ telemetry' = NextAttempt(telemetry)
    /\ UNCHANGED <<call, ProcessVars, TerminalVars, LockVars>>

\* ------------------------------------------------------- terminal commands
\* commands submitted to execute_terminal_command
MaxCommands == 102
\* commands in execution at the same time
MaxExecuting == 2
\* unusual terminal events: a command that fails, two equal timestamps, a
\* read error, a cleanup_terminal_processes call
MaxTermFaults == 1
\* the commands, counted from the first, that can fail, share a timestamp or
\* still run while later commands start
EarlyCommands == 3
MAX_COMPLETED_PROCESSES == 100

\* process_id: "term_{millis}_{random u16}", taken fresh for every command
TermIds == 1..MaxCommands
\* HashMap<String, TerminalProcess>: a function from the ids it holds
init_terminal_registry == <<>>
term_get(reg, id) == IF id \in DOMAIN reg THEN Some(reg[id]) ELSE None
term_insert(reg, id, process) ==
    [k \in DOMAIN reg \cup {id} |-> IF k = id THEN process ELSE reg[k]]
term_remove(reg, id) == [k \in DOMAIN reg \ {id} |-> reg[k]]
NoTermResp == [op |-> "none", id |-> 0, code |-> "none"]
TermResp(op, id, c) == [op |-> op, id |-> id, code |-> c]

\* the commands tried, and the lists of is_safe_command and should_use_shell
\* as far as these commands are on them
Commands == {"ls", "echo", "git", "rm", "sudo", "mytool", "a;b"}
\* one command is_safe_command accepts and one it refuses
TermCommands == {"ls", "rm"}
BLOCKED_COMMANDS == {"rm", "sudo"}
ALLOWED_COMMANDS == {"ls", "echo", "git"}
SHELL_BUILTINS == {"echo"}
\* every character is alphanumeric or one of " -_./"
PlainChars(command) == command # "a;b"

is_safe_command(command) ==
    IF command \in BLOCKED_COMMANDS THEN FALSE
    ELSE IF command \in ALLOWED_COMMANDS THEN TRUE
    ELSE PlainChars(command)

should_use_shell(command) == command \in SHELL_BUILTINS

\* chrono::Utc::now().to_rfc3339(): the instant t, counted in quarter seconds,
\* printed as "SS", an optional fraction of 3 or 6 digits (the shortest that is
\* exact) and the offset "+00:00"; the date, the hour and the minute in front
\* and the "00:00" behind are the same in all of them and left out.  A string
\* is the sequence of its bytes.
TicksPerSecond == 4
Plus == 43
Dot == 46
Digit(d) == 48 + d
FracChars(q) ==
    CASE q = 0 -> <<>>
      [] q = 1 -> <<Dot, Digit(2), Digit(5), Digit(0)>>
      [] q = 2 -> <<Dot, Digit(2), Digit(5), Digit(0), Digit(5), Digit(0), Digit(0)>>
      [] q = 3 -> <<Dot, Digit(5), Digit(0), Digit(0)>>
to_rfc3339(t) ==
    <<Digit((t \div TicksPerSecond) \div 10), Digit((t \div TicksPerSecond) % 10)>>
        \o FracChars(t % TicksPerSecond) \o <<Plus>>

\* a.1.cmp(&b.1) == Less on two Strings: byte-wise lexicographic order
RECURSIVE StrLess(_, _)
StrLess(a, b) ==
    IF a = <<>> THEN b # <<>>
    ELSE IF b = <<>> THEN FALSE
    ELSE IF Head(a) # Head(b) THEN Head(a) < Head(b)
    ELSE StrLess(Tail(a), Tail(b))

\* the TerminalProcess registered for a command; at: the instant started_at
\* was taken from
TerminalProcess(id, now) ==
    [id |-> id, pid |-> None, started_at |-> to_rfc3339(now), at |-> now,
     status |-> "running"]

IsCompleted_any(process) == TRUE
IsCompleted(process) == process.status \in {"completed", "failed"}

Completed(reg) == {id \in DOMAIN reg : IsCompleted(reg[id])}

\* the candidates no other candidate sorts before
Oldest(reg, cands) ==
    {id \in cands :
        \A k \in cands : ~StrLess(reg[k].started_at, reg[id].started_at)}

\* sort_by is stable and the map iterates in no particular order: among equal
\* started_at any candidate can come first
RECURSIVE RemoveOldest(_, _, _)
RemoveOldest(reg, cands, n) ==
    IF n = 0 THEN {reg}
    ELSE UNION {RemoveOldest(term_remove(reg, id), cands \ {id}, n - 1) :
                    id \in Oldest(reg, cands)}

\* the registries cleanup_old_processes can leave
cleanup_old_processes(reg) ==
    LET completed_processes == Completed(reg) IN
    IF Cardinality(completed_processes) > MAX_COMPLETED_PROCESSES
    THEN RemoveOldest(reg, completed_processes,
                      Cardinality(completed_processes) - MAX_COMPLETED_PROCESSES)
    ELSE {reg}

\* exit_code == Some(0) || exit_code.is_none()
term_success(res) == res \in {"exit0", "signal"}

\* ---------------------------- execute_shell_command / execute_binary_command
\* lines a pipe holds before a write to it blocks
PipeCap == 1
\* lines a child writes to one stream
MaxWrite == 2
\* id: the command followed; pc: "start", "stdout", "stderr", "wait", "done";
\* out, err: lines in the pipes; outLeft, errLeft: lines the child still
\* writes; stdout_output, stderr_output: lines pushed to the two Vecs;
\* result: what the function returns
NoDrain ==
    [id |-> 0, pc |-> "none", shell |-> FALSE, child |-> "none", out |-> 0, err |-> 0,
     outLeft |-> 0, errLeft |-> 0, stdout_output |-> 0, stderr_output |-> 0,
     exit |-> "none", result |-> "none"]

\* is_safe_command(&command) is false: refused before anything is registered
TermBlocked(command) ==
    /\ ~is_safe_command(command)
    /\ term_resp' = TermResp("execute_terminal_command", 0, "blocked")
    /\ UNCHANGED <<term_registry, term_executing, term_next, term_clock, term_budget,
                   drain>>
    /\ UNCHANGED <<call, ProcessVars, TelemetryVars, LockVars>>

\* the entry is inserted with status "running" and pid None, then the command
\* is started; tick: how far the clock moved since the last command;
\* follow: the execution is followed line by line
TermRegister(command, tick, follow) ==
    /\ is_safe_command(command)
    /\ term_next <= MaxCommands
    /\ Cardinality(term_executing) < MaxExecuting
    /\ term_executing \subseteq 1..EarlyCommands
    /\ tick = 0 => term_next <= EarlyCommands /\ term_budget < MaxTermFaults
    /\ follow => drain = NoDrain
    /\ term_clock' = term_clock + tick
    /\ term_registry' = term_insert(term_registry, term_next,
                                     TerminalProcess(term_next, term_clock + tick))
    /\ term_executing' = term_executing \cup {term_next}
    /\ term_next' = term_next + 1
    /\ term_budget' = IF tick = 0 THEN term_budget + 1 ELSE term_budget
    /\ drain' = IF follow
                THEN [NoDrain EXCEPT !.id = term_next, !.pc = "start",
                                     !.shell = should_use_shell(command)]
                ELSE drain
    /\ term_resp' = NoTermResp
    /\ UNCHANGED <<call, ProcessVars, TelemetryVars, LockVars>>

\* execution_result is there: Ok((stdout, stderr, exit_code)) or Err(e).  The
\* status is written, cleanup_old_processes runs under the same lock, and the
\* TerminalCommandResult is returned.
TermReturns(id, res) ==
    /\ id \in term_executing
    /\ drain.id = id => drain.pc = "done" /\ drain.result = res
    /\ (res # "exit0" /\ drain.id # id) =>
            id <= EarlyCommands /\ term_budget < MaxTermFaults
    /\ LET status == IF res # "err" /\ term_success(res) THEN "completed" ELSE "failed"
           updated == IF IsSome(term_get(term_registry, id))
                      THEN [term_registry EXCEPT ![id].status = status]
                      ELSE term_registry
       IN /\ \E reg \in cleanup_old_processes(updated) : term_registry' = reg
          /\ term_resp' = TermResp("execute_terminal_command", id, status)
    /\ term_executing' = term_executing \ {id}
    /\ term_budget' = IF res # "exit0" /\ drain.id # id
                      THEN term_budget + 1 ELSE term_budget
    /\ UNCHANGED <<term_next, term_clock, drain>>
    /\ UNCHANGED <<call, ProcessVars, TelemetryVars, LockVars>>

\* the ids a caller cancels: the commands in execution and one never registered
CancelIds == {id \in TermIds : id \in term_executing \/ id = term_next}

\* cancel_terminal_command: SIGTERM to the stored pid, if the entry has one;
\* ok: kill succeeded, where kill was called
cancel_terminal_command(command_id, ok) ==
    /\ command_id \in CancelIds
    /\ ~ok => /\ IsSome(term_get(term_registry, command_id))
               /\ IsSome(term_registry[command_id].pid)
    /\ LET entry == term_get(term_registry, command_id) IN
       IF ~IsSome(entry)
       THEN /\ term_resp' = TermResp("cancel_terminal_command", command_id, "NOT_FOUND")
            /\ UNCHANGED term_registry
       ELSE IF ~IsSome(entry[1].pid)
       THEN /\ term_resp' = TermResp("cancel_terminal_command", command_id, "NO_PID")
            /\ UNCHANGED term_registry
       ELSE IF ok
       THEN /\ term_resp' = TermResp("cancel_terminal_command", command_id, "OK")
            /\ term_registry' = [term_registry EXCEPT ![command_id].status = "killed"]
       ELSE /\ term_resp' = TermResp("cancel_terminal_command", command_id, "KILL_FAILED")
            /\ UNCHANGED term_registry
    /\ UNCHANGED <<term_executing, term_next, term_clock, term_budget, drain>>
    /\ UNCHANGED <<call, ProcessVars, TelemetryVars, LockVars>>

\* cleanup_terminal_processes: retain only the running entries
cleanup_terminal_processes ==
    /\ term_budget < MaxTermFaults
    /\ term_next <= EarlyCommands + 1 \/ term_next > MaxCommands
    /\ term_budget' = term_budget + 1
    /\ term_registry' =
            [id \in {k \in DOMAIN term_registry : term_registry[k].status = "running"} |->
                term_registry[id]]
    /\ term_resp' = TermResp("cleanup_terminal_processes", 0, "OK")
    /\ UNCHANGED <<term_executing, term_next, term_clock, drain>>
    /\ UNCHANGED <<call, ProcessVars, TelemetryVars, LockVars>>

\* cmd.spawn() is Ok(child): the child will write o lines to stdout and e
\* lines to stderr and then exit with st
DrainSpawn(o, e, st) ==
    /\ drain.pc = "start"
    /\ drain' = [drain EXCEPT !.pc = "stdout", !.child = "alive",
                              !.outLeft = o, !.errLeft = e, !.exit = st]
    /\ term_resp' = NoTermResp
    /\ UNCHANGED <<term_registry, term_executing, term_next, term_clock, term_budget>>
    /\ UNCHANGED <<call, ProcessVars, TelemetryVars, LockVars>>

\* cmd.spawn()? is Err: NotFound from execute_binary_command falls back to
\* execute_shell_command, every other error is returned
DrainSpawnFailed(kind) ==
    /\ drain.pc = "start"
    /\ drain' = IF kind = "NotFound" /\ ~drain.shell
                THEN [drain EXCEPT !.shell = TRUE]
                ELSE [drain EXCEPT !.pc = "done", !.result = "err"]
    /\ term_resp' = NoTermResp
    /\ UNCHANGED <<term_registry, term_executing, term_next, term_clock, term_budget>>
    /\ UNCHANGED <<call, ProcessVars, TelemetryVars, LockVars>>

\* the child writes a line; the write blocks while the pipe is full
ChildWriteStdout ==
    /\ drain.child = "alive" /\ drain.outLeft > 0 /\ drain.out < PipeCap
    /\ drain' = [drain EXCEPT !.out = @ + 1, !.outLeft = @ - 1]
    /\ term_resp' = NoTermResp
    /\ UNCHANGED <<term_registry, term_executing, term_next, term_clock, term_budget>>
    /\ UNCHANGED <<call, ProcessVars, TelemetryVars, LockVars>>

ChildWriteStderr ==
    /\ drain.child = "alive" /\ drain.errLeft > 0 /\ drain.err < PipeCap
    /\ drain' = [drain EXCEPT !.err = @ + 1, !.errLeft = @ - 1]
    /\ term_resp' = NoTermResp
    /\ UNCHANGED <<term_registry, term_executing, term_next, term_clock, term_budget>>
    /\ UNCHANGED <<call, ProcessVars, TelemetryVars, LockVars>>

\* the child has written all it had to write and exits, closing both pipes
ChildExit ==
    /\ drain.child = "alive" /\ drain.outLeft = 0 /\ drain.errLeft = 0
    /\ drain' = [drain EXCEPT !.child = "exited"]
    /\ term_resp' = NoTermResp
    /\ UNCHANGED <<term_registry, term_executing, term_next, term_clock, term_budget>>
    /\ UNCHANGED <<call, ProcessVars, TelemetryVars, LockVars>>

\* stdout_reader.read_line(..).await? > 0
DrainReadStdout ==
    /\ drain.pc = "stdout" /\ drain.out > 0
    /\ drain' = [drain EXCEPT !.out = @ - 1, !.stdout_output = @ + 1]
    /\ term_resp' = NoTermResp
    /\ UNCHANGED <<term_registry, term_executing, term_next, term_clock, term_budget>>
    /\ UNCHANGED <<call, ProcessVars, TelemetryVars, LockVars>>

\* read_line returns 0: the pipe is empty and the child has closed it
DrainStdoutEof ==
    /\ drain.pc = "stdout" /\ drain.out = 0 /\ drain.child = "exited"
    /\ drain' = [drain EXCEPT !.pc = "stderr"]
    /\ term_resp' = NoTermResp
    /\ UNCHANGED <<term_registry, term_executing, term_next, term_clock, term_budget>>
    /\ UNCHANGED <<call, ProcessVars, TelemetryVars, LockVars>>

DrainReadStderr ==
    /\ drain.pc = "stderr" /\ drain.err > 0
    /\ drain' = [drain EXCEPT !.err = @ - 1, !.stderr_output = @ + 1]
    /\ term_resp' = NoTermResp
    /\ UNCHANGED <<term_registry, term_executing, term_next, term_clock, term_budget>>
    /\ UNCHANGED <<call, ProcessVars, TelemetryVars, LockVars>>

DrainStderrEof ==
    /\ drain.pc = "stderr" /\ drain.err = 0 /\ drain.child = "exited"
    /\ drain' = [drain EXCEPT !.pc = "wait"]
    /\ term_resp' = NoTermResp
    /\ UNCHANGED <<term_registry, term_executing, term_next, term_clock, term_budget>>
    /\ UNCHANGED <<call, ProcessVars, TelemetryVars, LockVars>>

\* read_line(..).await? is Err: the function returns the error
DrainReadError ==
    /\ drain.pc \in {"stdout", "stderr"}
    /\ term_budget < MaxTermFaults
    /\ term_budget' = term_budget + 1
    /\ drain' = [drain EXCEPT !.pc = "done", !.result = "err"]
    /\ term_resp' = NoTermResp
    /\ UNCHANGED <<term_registry, term_executing, term_next, term_clock>>
    /\ UNCHANGED <<call, ProcessVars, TelemetryVars, LockVars>>

\* child.wait().await? returns the exit status
DrainWait ==
    /\ drain.pc = "wait" /\ drain.child = "exited"
    /\ drain' = [drain EXCEPT !.pc = "done", !.child = "reaped", !.result = drain.exit]
    /\ term_resp' = NoTermResp
    /\ UNCHANGED <<term_registry, term_executing, term_next, term_clock, term_budget>>
    /\ UNCHANGED <<call, ProcessVars, TelemetryVars, LockVars>>

\* ------------------------------------------------------- registry locking
\* operations on the process registry in progress at the same time
MaxOps == 3
Ops == 1..MaxOps
\* get_run_result, stop_eliza_run and kill_eliza_run are the handlers; insert,
\* finalize and cleanup are the three places of execute_eliza_run_streaming
\* that take the registry lock
OpKinds == {"get_run_result", "stop_eliza_run", "kill_eliza_run",
            "insert", "finalize", "cleanup"}
\* pc: "idle", "ready" (running), "waiting" (queued for its next lock);
\* held: the locks held, in the order taken
IdleOp == [kind |-> "none", run |-> 0, held |-> <<>>, pc |-> "idle"]
\* tokio::sync::RwLock and tokio::sync::Mutex queue their waiters first in,
\* first out; keys: the run ids the map holds
RwLock_new == [readers |-> {}, writer |-> 0, queue |-> <<>>, keys |-> {}]
Mutex_new == [holder |-> 0, queue |-> <<>>]

\* registry.read() in get_run_result, registry.write() everywhere else
Reads(kind) == kind = "get_run_result"

\* the locks an operation takes, in order: the registry lock, then, where it
\* looks at the entry, the entry's mutex
AcquireSeq_handle_first(kind) ==
    IF kind \in {"insert", "cleanup"} THEN <<"rw">>
    ELSE IF kind \in {"stop_eliza_run", "kill_eliza_run"} THEN <<"mu", "rw">>
    ELSE <<"rw", "mu">>
AcquireSeq(kind) ==
    IF kind \in {"insert", "cleanup"} THEN <<"rw">> ELSE <<"rw", "mu">>

\* the lock the operation asks for next; "none" when it has all it needs or
\* guard.get(&run_id) found no entry
NextLock(op) ==
    LET seq == AcquireSeq(op.kind) IN
    IF Len(op.held) >= Len(seq) THEN "none"
    ELSE IF seq[Len(op.held) + 1] = "mu" /\ op.held = <<"rw">> /\ op.run \notin rw.keys
         THEN "none"
         ELSE seq[Len(op.held) + 1]

Holds(op, l) == \E i \in 1..Len(op.held) : op.held[i] = l

\* what an operation slot runs: two slots run the handlers the frontend calls,
\* the third runs a handler or a registry access of a supervisor
HandlerSlots == 2
OpKindsOf(o) ==
    IF o <= HandlerSlots THEN {"get_run_result", "stop_eliza_run", "kill_eliza_run"}
    ELSE OpKinds

\* a handler or a supervisor step that uses the registry starts
OpBegin(o, kind, r) ==
    /\ lock_ops[o].pc = "idle"
    /\ kind \in OpKindsOf(o)
    /\ lock_ops' = [lock_ops EXCEPT ![o] = [kind |-> kind, run |-> r,
                                             held |-> <<>>, pc |-> "ready"]]
    /\ UNCHANGED <<rw, mu>>
    /\ UNCHANGED <<call, ProcessVars, TelemetryVars, TerminalVars>>

\* .read().await / .write().await / .lock().await: join the lock's queue
OpRequest(o) ==
    /\ lock_ops[o].pc = "ready"
    /\ NextLock(lock_ops[o]) # "none"
    /\ lock_ops' = [lock_ops EXCEPT ![o].pc = "waiting"]
    /\ IF NextLock(lock_ops[o]) = "rw"
       THEN /\ rw' = [rw EXCEPT !.queue = Append(@, o)]
            /\ UNCHANGED mu
       ELSE /\ mu' = [mu EXCEPT ![lock_ops[o].run].queue = Append(@, o)]
            /\ UNCHANGED rw
    /\ UNCHANGED <<call, ProcessVars, TelemetryVars, TerminalVars>>

\* the registry lock is granted to the first waiter: to a reader while no
\* writer holds it, to a writer while nobody holds it
RwGrant(o) ==
    /\ lock_ops[o].pc = "waiting"
    /\ rw.queue # <<>> /\ Head(rw.queue) = o
    /\ rw.writer = 0
    /\ ~Reads(lock_ops[o].kind) => rw.readers = {}
    /\ rw' = [rw EXCEPT !.queue = Tail(@),
                        !.readers = IF Reads(lock_ops[o].kind) THEN @ \cup {o} ELSE @,
                        !.writer = IF Reads(lock_ops[o].kind) THEN @ ELSE o]
    /\ lock_ops' = [lock_ops EXCEPT ![o].pc = "ready", ![o].held = Append(@, "rw")]
    /\ UNCHANGED mu
    /\ UNCHANGED <<call, ProcessVars, TelemetryVars, TerminalVars>>

\* the entry's mutex is granted to its first waiter while nobody holds it
MuGrant(o) ==
    /\ lock_ops[o].pc = "waiting" /\ lock_ops[o].run \in RunIds
    /\ LET m == mu[lock_ops[o].run] IN
       /\ m.queue # <<>> /\ Head(m.queue) = o
       /\ m.holder = 0
       /\ mu' = [mu EXCEPT ![lock_ops[o].run] = [holder |-> o, queue |-> Tail(m.queue)]]
    /\ lock_ops' = [lock_ops EXCEPT ![o].pc = "ready", ![o].held = Append(@, "mu")]
    /\ UNCHANGED rw
    /\ UNCHANGED <<call, ProcessVars, TelemetryVars, TerminalVars>>

\* the operation does its work on the map and returns: its guards are dropped
OpFinish(o) ==
    /\ lock_ops[o].pc = "ready"
    /\ NextLock(lock_ops[o]) = "none"
    /\ LET op == lock_ops[o] IN
       /\ rw' = [rw EXCEPT
                    !.readers = @ \ {o},
                    !.writer = IF @ = o THEN 0 ELSE @,
                    !.keys = IF ~Holds(op, "rw") THEN @
                             ELSE IF op.kind = "insert" THEN @ \cup {op.run}
                             ELSE IF op.kind = "cleanup" THEN @ \ {op.run}
                             ELSE @]
       /\ mu' = [r \in RunIds |->
                    IF mu[r].holder = o THEN [mu[r] EXCEPT !.holder = 0] ELSE mu[r]]
    /\ lock_ops' = [lock_ops EXCEPT ![o] = IdleOp]
    /\ UNCHANGED <<call, ProcessVars, TelemetryVars, TerminalVars>>

Init ==
    /\ registry = init_process_registry
    /\ pc = [r \in RunIds |-> "idle"]
    /\ run_result = [r \in RunIds |-> None]
    /\ start_time = [r \in RunIds |-> 0]
    /\ status_result = [r \in RunIds |-> "pending"]
    /\ proc = [r \in RunIds |-> NoProc]
    /\ readers = [r \in RunIds |-> NoReaders]
    /\ events = [r \in RunIds |-> <<>>]
    /\ cleanup = [r \in RunIds |-> "none"]
    /\ signals = [r \in RunIds |-> <<>>]
    /\ clock = [r \in RunIds |-> 0]
    /\ faults = 0
    /\ control_result = [r \in RunIds |-> None]
    /\ resp = NoResp
    /\ probes = <<>>
    /\ call = NoCall
    /\ telemetry = NoTelemetry
    /\ term_registry = init_terminal_registry
    /\ term_executing = {}
    /\ term_next = 1
    /\ term_clock = 0
    /\ term_budget = 0
    /\ term_resp = NoTermResp
    /\ drain = NoDrain
    /\ lock_ops = [o \in Ops |-> IdleOp]
    /\ rw = RwLock_new
    /\ mu = [r \in RunIds |-> Mutex_new]

\* ------------------------------------------------- start_eliza_run_streaming
\* generate_safe_run_id: the next identifier never handed out before
generate_safe_run_id(r) ==
    /\ pc[r] = "idle"
    /\ \A q \in RunIds : q < r => pc[q] # "idle"

\* config.is_valid() is false: nothing but the error response
StartInvalidConfig_probes ==
    /\ resp = NoResp
    /\ InvalidConfigs # {}
    /\ resp' = ApiResponse_error("start_eliza_run_streaming", 0, "INVALID_CONFIG", "none")
    /\ probes' = <<Probe("elizaos", "missing")>>
    /\ UNCHANGED FarVars
    /\ UNCHANGED <<registry, pc, run_result, start_time, status_result, proc,
                   readers, events, cleanup, signals, clock, faults, control_result>>

StartInvalidConfig ==
    /\ resp = NoResp
    /\ InvalidConfigs # {}
    /\ resp' = ApiResponse_error("start_eliza_run_streaming", 0, "INVALID_CONFIG", "none")
    /\ probes' = <<>>
    /\ UNCHANGED FarVars
    /\ UNCHANGED <<registry, pc, run_result, start_time, status_result, proc,
                   readers, events, cleanup, signals, clock, faults, control_result>>

\* resolve_eliza_command finds neither elizaos nor npx: Err(CliNotFound)
StartCliNotFound(r, sid, p1, p2) ==
    /\ resp = NoResp
    /\ generate_safe_run_id(r)
    /\ resolve_eliza_command(p1, p2).result = None
    /\ probes' = resolve_eliza_command(p1, p2).probes
    /\ UNCHANGED FarVars
    /\ events' = emit(events, r, LogEvent("system", "Starting ElizaOS CLI execution..."))
    /\ pc' = [pc EXCEPT ![r] = "returned"]
    /\ resp' = StartError("start_eliza_run_streaming", r, "CliNotFound")
    /\ UNCHANGED <<registry, run_result, start_time, status_result, proc, readers,
                   cleanup, signals, clock, faults, control_result>>

\* command.spawn() is Err: error event, Err(AppError::Process)
StartSpawnFailed(r, sid, p1, p2) ==
    /\ resp = NoResp
    /\ generate_safe_run_id(r)
    /\ IsSome(resolve_eliza_command(p1, p2).result)
    /\ probes' = resolve_eliza_command(p1, p2).probes
    /\ UNCHANGED FarVars
    /\ events' = [events EXCEPT ![r] =
                    @ \o <<LogEvent("system", "Starting ElizaOS CLI execution..."),
                           LogEvent("info", "Command"),
                           LogEvent("error", "Failed to spawn process")>>]
    /\ pc' = [pc EXCEPT ![r] = "returned"]
    /\ resp' = StartError("start_eliza_run_streaming", r, "Process")
    /\ UNCHANGED <<registry, run_result, start_time, status_result, proc, readers,
                   cleanup, signals, clock, faults, control_result>>

\* command.spawn() is Ok(child): the child runs, nothing is registered yet
StartSpawned(r, sid, p1, p2) ==
    /\ resp = NoResp
    /\ generate_safe_run_id(r)
    /\ IsSome(resolve_eliza_command(p1, p2).result)
    /\ events' = [events EXCEPT ![r] =
                    @ \o <<LogEvent("system", "Starting ElizaOS CLI execution..."),
                           LogEvent("info", "Command")>>]
    /\ start_time' = [start_time EXCEPT ![r] = clock[r]]
    /\ clock' = [clock EXCEPT ![r] = @ + 1]
    /\ run_result' = [run_result EXCEPT ![r] = Some(RunResult_new(RunSpec_new(sid), r))]
    /\ proc' = [proc EXCEPT ![r].state = "alive"]
    /\ pc' = [pc EXCEPT ![r] = "spawned"]
    /\ resp' = NoResp
    /\ probes' = resolve_eliza_command(p1, p2).probes
    /\ UNCHANGED FarVars
    /\ UNCHANGED <<registry, status_result, readers, cleanup, signals, faults,
                   control_result>>

\* child.id() is Some(pid): insert the handle, then start both readers
Register(r) ==
    /\ pc[r] = "spawned"
    /\ LET rr == [run_result[r][1] EXCEPT !.pid = Some(PidOf(r))]
       IN /\ run_result' = [run_result EXCEPT ![r] = Some(rr)]
          /\ registry' = insert(registry, r, ProcessHandle_new(rr))
    /\ pc' = [pc EXCEPT ![r] = "waiting"]
    /\ resp' = NoResp
    /\ probes' = <<>>
    /\ UNCHANGED FarVars
    /\ UNCHANGED <<start_time, status_result, proc, readers, events, cleanup,
                   signals, clock, faults, control_result>>

\* ------------------------------------------------------- the child process
RECURSIVE Written(_)
Written(n) == IF n = 0 THEN 0 ELSE proc[n].outW + proc[n].errW + Written(n - 1)

ProcWriteStdout(r) ==
    /\ proc[r].state = "alive"
    /\ Written(NumRuns) < MaxLines
    /\ proc' = [proc EXCEPT ![r].outW = @ + 1]
    /\ resp' = NoResp
    /\ probes' = <<>>
    /\ UNCHANGED FarVars
    /\ UNCHANGED <<registry, pc, run_result, start_time, status_result, readers,
                   events, cleanup, signals, clock, faults, control_result>>

ProcWriteStderr(r) ==
    /\ proc[r].state = "alive"
    /\ Written(NumRuns) < MaxLines
    /\ proc' = [proc EXCEPT ![r].errW = @ + 1]
    /\ resp' = NoResp
    /\ probes' = <<>>
    /\ UNCHANGED FarVars
    /\ UNCHANGED <<registry, pc, run_result, start_time, status_result, readers,
                   events, cleanup, signals, clock, faults, control_result>>

\* the child exits on its own with an exit code, or is ended by a signal from
\* outside this program; it stays a zombie until waited for
ProcExit(r, st) ==
    /\ proc[r].state = "alive"
    /\ st = "signal" => faults < MaxFaults
    /\ proc' = [proc EXCEPT ![r].state = "zombie", ![r].exit = st]
    /\ faults' = IF st = "signal" THEN faults + 1 ELSE faults
    /\ resp' = NoResp
    /\ probes' = <<>>
    /\ UNCHANGED FarVars
    /\ UNCHANGED <<registry, pc, run_result, start_time, status_result, readers,
                   events, cleanup, signals, clock, control_result>>

\* ------------------------------------------------------- the reader tasks
\* lines.next_line() is Ok(Some(line)): push to the task's Vec, emit the event
ReadStdout(r) ==
    /\ pc[r] \in {"waiting", "joining"}
    /\ ~readers[r].out.done
    /\ Len(readers[r].out.lines) < proc[r].outW
    /\ LET line == Line(Len(readers[r].out.lines) + 1)
       IN /\ readers' = [readers EXCEPT ![r].out.lines = Append(@, line)]
          /\ events' = emit(events, r, LogEvent("stdout", line))
    /\ resp' = NoResp
    /\ probes' = <<>>
    /\ UNCHANGED FarVars
    /\ UNCHANGED <<registry, pc, run_result, start_time, status_result, proc,
                   cleanup, signals, clock, faults, control_result>>

ReadStderr(r) ==
    /\ pc[r] \in {"waiting", "joining"}
    /\ ~readers[r].err.done
    /\ Len(readers[r].err.lines) < proc[r].errW
    /\ LET line == Line(Len(readers[r].err.lines) + 1)
       IN /\ readers' = [readers EXCEPT ![r].err.lines = Append(@, line)]
          /\ events' = emit(events, r, LogEvent("stderr", line))
    /\ resp' = NoResp
    /\ probes' = <<>>
    /\ UNCHANGED FarVars
    /\ UNCHANGED <<registry, pc, run_result, start_time, status_result, proc,
                   cleanup, signals, clock, faults, control_result>>

\* next_line() is Ok(None) (the child closed the pipe and it is drained) or
\* Err (a read error, at any time): the while-let loop ends
EndStdout_ends_both(r, why) ==
    /\ pc[r] \in {"waiting", "joining"}
    /\ ~readers[r].out.done
    /\ \/ /\ why = "eof"
          /\ proc[r].state \in {"zombie", "reaped"}
          /\ Len(readers[r].out.lines) = proc[r].outW
       \/ why = "error" /\ faults < MaxFaults
    /\ readers' = [readers EXCEPT ![r].out.done = TRUE,
                                  ![r].err.done = IF why = "error" THEN TRUE ELSE @]
    /\ faults' = IF why = "error" THEN faults + 1 ELSE faults
    /\ resp' = NoResp
    /\ probes' = <<>>
    /\ UNCHANGED FarVars
    /\ UNCHANGED <<registry, pc, run_result, start_time, status_result, proc,
                   events, cleanup, signals, clock, control_result>>

EndStdout(r, why) ==
    /\ pc[r] \in {"waiting", "joining"}
    /\ ~readers[r].out.done
    /\ \/ /\ why = "eof"
          /\ proc[r].state \in {"zombie", "reaped"}
          /\ Len(readers[r].out.lines) = proc[r].outW
       \/ why = "error" /\ faults < MaxFaults
    /\ readers' = [readers EXCEPT ![r].out.done = TRUE]
    /\ faults' = IF why = "error" THEN faults + 1 ELSE faults
    /\ resp' = NoResp
    /\ probes' = <<>>
    /\ UNCHANGED FarVars
    /\ UNCHANGED <<registry, pc, run_result, start_time, status_result, proc,
                   events, cleanup, signals, clock, control_result>>

EndStderr(r, why) ==
    /\ pc[r] \in {"waiting", "joining"}
    /\ ~readers[r].err.done
    /\ \/ /\ why = "eof"
          /\ proc[r].state \in {"zombie", "reaped"}
          /\ Len(readers[r].err.lines) = proc[r].errW
       \/ why = "error" /\ faults < MaxFaults
    /\ readers' = [readers EXCEPT ![r].err.done = TRUE]
    /\ faults' = IF why = "error" THEN faults + 1 ELSE faults
    /\ resp' = NoResp
    /\ probes' = <<>>
    /\ UNCHANGED FarVars
    /\ UNCHANGED <<registry, pc, run_result, start_time, status_result, proc,
                   events, cleanup, signals, clock, control_result>>

\* ------------------------------------------- execute_eliza_run_streaming
\* child.wait().await returns: Ok(status) reaps the zombie, Err(e) is an OS error
WaitReturns(r, res) ==
    /\ pc[r] = "waiting"
    /\ \/ /\ res = "ok"
          /\ proc[r].state = "zombie"
          /\ status_result' = [status_result EXCEPT ![r] = proc[r].exit]
          /\ proc' = [proc EXCEPT ![r].state = "reaped"]
       \/ /\ res = "err"
          /\ faults < MaxFaults
          /\ status_result' = [status_result EXCEPT ![r] = "err"]
          /\ UNCHANGED proc
    /\ faults' = IF res = "err" THEN faults + 1 ELSE faults
    /\ pc' = [pc EXCEPT ![r] = "joining"]
    /\ resp' = NoResp
    /\ probes' = <<>>
    /\ UNCHANGED FarVars
    /\ UNCHANGED <<registry, run_result, start_time, readers, events, cleanup,
                   signals, clock, control_result>>

\* the run_result the supervisor builds once wait and both readers are done
FinalResult(rr, st, out, err, now, started) ==
    [rr EXCEPT
        !.status = IF st # "err" /\ success(st) THEN "Completed" ELSE "Failed",
        !.exit_code = IF st # "err" THEN code(st) ELSE rr.exit_code,
        !.stdout = out,
        !.stderr = IF st = "err" THEN Append(err, "Process wait failed") ELSE err,
        !.ended_at = Some(now),
        !.duration_ms = Some(now - started)]

\* the write-back under the registry write lock and the entry's mutex
FinalizeEntry_status_first(h, rr) == [h EXCEPT !.run_result.status = rr.status]
FinalizeEntry(h, rr) == mark_completed(update_result(h, rr))

status_msg(rr) ==
    IF rr.status = "Completed" THEN "Process completed successfully"
    ELSE IF rr.status = "Failed" THEN "Process failed"
    ELSE "Process ended"

\* stdout_task.await and stderr_task.await have returned: build the final
\* result, write it back under the registry write lock, spawn the cleanup
\* task, emit the completion event and return Ok(run_result).  The locals are
\* dropped on return and the child is no longer followed.
Finalize(r) ==
    /\ pc[r] = "joining"
    /\ readers[r].out.done /\ readers[r].err.done
    /\ LET rr == FinalResult(run_result[r][1], status_result[r],
                             readers[r].out.lines, readers[r].err.lines,
                             clock[r], start_time[r])
       IN /\ registry' = IF contains_key(registry, r)
                         THEN insert(registry, r, FinalizeEntry(get(registry, r), rr))
                         ELSE registry
          /\ events' = emit(events, r, LogEvent("system", status_msg(rr)))
          /\ resp' = ApiResponse_success("start_eliza_run_streaming", r, rr, "none")
    /\ probes' = <<>>
    /\ UNCHANGED FarVars
    /\ cleanup' = [cleanup EXCEPT ![r] = "sleeping"]
    /\ pc' = [pc EXCEPT ![r] = "returned"]
    /\ run_result' = [run_result EXCEPT ![r] = None]
    /\ start_time' = [start_time EXCEPT ![r] = 0]
    /\ status_result' = [status_result EXCEPT ![r] = "pending"]
    /\ readers' = [readers EXCEPT ![r] = NoReaders]
    /\ proc' = [proc EXCEPT ![r] = NoProc]
    /\ clock' = [clock EXCEPT ![r] = @ + 1]
    /\ UNCHANGED <<signals, faults, control_result>>

\* the cleanup task wakes after its sleep and removes the entry; the run is
\* no longer observed
Cleanup(r) ==
    /\ cleanup[r] = "sleeping"
    /\ registry' = remove(registry, r)
    /\ cleanup' = [cleanup EXCEPT ![r] = "done"]
    /\ events' = [events EXCEPT ![r] = <<>>]
    /\ signals' = [signals EXCEPT ![r] = <<>>]
    /\ clock' = [clock EXCEPT ![r] = 0]
    /\ resp' = NoResp
    /\ probes' = <<>>
    /\ UNCHANGED FarVars
    /\ control_result' = [control_result EXCEPT ![r] = None]
    /\ UNCHANGED <<pc, run_result, start_time, status_result, proc, readers, faults>>

\* ------------------------------------- start_eliza_run / execute_eliza_run_simple
\* config.is_valid() is false
SimpleInvalidConfig ==
    /\ resp = NoResp
    /\ InvalidConfigs # {}
    /\ resp' = ApiResponse_error("start_eliza_run", 0, "INVALID_CONFIG", "none")
    /\ probes' = <<>>
    /\ UNCHANGED FarVars
    /\ UNCHANGED <<registry, pc, run_result, start_time, status_result, proc,
                   readers, events, cleanup, signals, clock, faults, control_result>>

\* resolve_eliza_command()? is Err(CliNotFound)
SimpleCliNotFound(r, sid, p1, p2) ==
    /\ resp = NoResp
    /\ generate_safe_run_id(r)
    /\ resolve_eliza_command(p1, p2).result = None
    /\ probes' = resolve_eliza_command(p1, p2).probes
    /\ UNCHANGED FarVars
    /\ pc' = [pc EXCEPT ![r] = "returned"]
    /\ resp' = StartError("start_eliza_run", r, "CliNotFound")
    /\ UNCHANGED <<registry, run_result, start_time, status_result, proc, readers,
                   events, cleanup, signals, clock, faults, control_result>>

\* the Err(e) arm of command.spawn(): a Failed run_result, returned as Ok
SpawnFailedResult(rr, now, started) ==
    [rr EXCEPT !.status = "Failed",
               !.stderr = Append(@, "Failed to start process"),
               !.ended_at = Some(now),
               !.duration_ms = Some(now - started)]

SimpleSpawnFailed(r, sid, p1, p2) ==
    /\ resp = NoResp
    /\ generate_safe_run_id(r)
    /\ IsSome(resolve_eliza_command(p1, p2).result)
    /\ probes' = resolve_eliza_command(p1, p2).probes
    /\ UNCHANGED FarVars
    /\ pc' = [pc EXCEPT ![r] = "returned"]
    /\ resp' = ApiResponse_success("start_eliza_run", r,
                    SpawnFailedResult(RunResult_new(RunSpec_new(sid), r),
                                      clock[r] + 1, clock[r]),
                    "none")
    /\ UNCHANGED <<registry, run_result, start_time, status_result, proc, readers,
                   events, cleanup, signals, clock, faults, control_result>>

\* command.spawn() is Ok(child): the caller's thread blocks in wait_with_output
SimpleSpawned(r, sid, p1, p2) ==
    /\ resp = NoResp
    /\ generate_safe_run_id(r)
    /\ IsSome(resolve_eliza_command(p1, p2).result)
    /\ probes' = resolve_eliza_command(p1, p2).probes
    /\ UNCHANGED FarVars
    /\ start_time' = [start_time EXCEPT ![r] = clock[r]]
    /\ clock' = [clock EXCEPT ![r] = @ + 1]
    /\ run_result' = [run_result EXCEPT ![r] = Some(RunResult_new(RunSpec_new(sid), r))]
    /\ proc' = [proc EXCEPT ![r].state = "alive"]
    /\ pc' = [pc EXCEPT ![r] = "simple"]
    /\ resp' = NoResp
    /\ UNCHANGED <<registry, status_result, readers, events, cleanup, signals,
                   faults, control_result>>

\* the lines 1..n a child wrote to a stream
Lines(n) == [k \in 1..n |-> Line(k)]

\* the two arms of child.wait_with_output()
SimpleResult(rr, st, out, err, now, started) ==
    IF st # "err"
    THEN [rr EXCEPT !.status = IF success(st) THEN "Completed" ELSE "Failed",
                    !.stdout = out,
                    !.stderr = err,
                    !.exit_code = code(st),
                    !.ended_at = Some(now),
                    !.duration_ms = Some(now - started)]
    ELSE [rr EXCEPT !.status = "Failed",
                    !.stderr = Append(@, "Failed to wait for process"),
                    !.ended_at = Some(now),
                    !.duration_ms = Some(now - started)]

\* wait_with_output returns: Ok(output) once the child has exited and both
\* pipes are drained, Err(e) on an OS error.  Ok(run_result) goes to the caller.
SimpleWaitReturns(r, res) ==
    /\ pc[r] = "simple"
    /\ \/ res = "ok" /\ proc[r].state = "zombie"
       \/ res = "err" /\ faults < MaxFaults
    /\ faults' = IF res = "err" THEN faults + 1 ELSE faults
    /\ resp' = ApiResponse_success("start_eliza_run", r,
                    SimpleResult(run_result[r][1],
                                 IF res = "ok" THEN proc[r].exit ELSE "err",
                                 Lines(proc[r].outW), Lines(proc[r].errW),
                                 clock[r], start_time[r]),
                    "none")
    /\ probes' = <<>>
    /\ UNCHANGED FarVars
    /\ pc' = [pc EXCEPT ![r] = "returned"]
    /\ run_result' = [run_result EXCEPT ![r] = None]
    /\ start_time' = [start_time EXCEPT ![r] = 0]
    /\ proc' = [proc EXCEPT ![r] = NoProc]
    /\ clock' = [clock EXCEPT ![r] = 0]
    /\ UNCHANGED <<registry, status_result, readers, events, cleanup, signals,
                   control_result>>

\* ------------------------------------------ stop_eliza_run / kill_eliza_run
\* nix::sys::signal::kill(pid, sig): accepted while the pid names the child
\* (running or zombie); once the child is reaped the pid is free (ESRCH, ok
\* FALSE) or names an unrelated process (ok TRUE)
kill_accepted(p, ok) == p.state \in {"alive", "zombie"} \/ (p.state = "reaped" /\ ok)
\* a signal accepted for a reaped child's pid reached an unrelated process
PidReused(p, ok) == p.state = "reaped" /\ ok

SignalTarget(p) ==
    IF p.state = "alive" THEN "child" ELSE IF p.state = "zombie" THEN "zombie" ELSE "stranger"

\* SIGKILL ends a running child; SIGTERM ends it unless the child handles or ignores it
ProcAfterSignal(p, sig, dies) ==
    IF p.state = "alive" /\ (sig = "SIGKILL" \/ dies)
    THEN [p EXCEPT !.state = "zombie", !.exit = "signal"]
    ELSE p

Controllable_by_pid(h) == IsSome(h.run_result.pid)
Controllable(h) == h.can_control

\* the Ok(_) arm marks the entry Killed; the Err(e) arm touches nothing
ControlEntry_ignores_failure(h, accepted, now) ==
    mark_completed([h EXCEPT !.run_result.status = "Killed",
                             !.run_result.ended_at = Some(now)])
ControlEntry_keeps_control(h, accepted, now) ==
    IF accepted
    THEN [h EXCEPT !.run_result.status = "Killed",
                   !.run_result.ended_at = Some(now)]
    ELSE h
ControlEntry(h, accepted, now) ==
    IF accepted
    THEN mark_completed([h EXCEPT !.run_result.status = "Killed",
                                  !.run_result.ended_at = Some(now)])
    ELSE h

NotFound_as_success(op, id) == ApiResponse_success(op, id, RunResult_new(RunSpec_new(id), id), "none")
NotFound(op, id) == ApiResponse_error(op, id, "NOT_FOUND", "none")

\* the ApiResponse of a stop/kill call and the state it leaves
ControlResponse(op, sig, errcode, id, ok) ==
    IF ~contains_key(registry, id) THEN NotFound(op, id)
    ELSE LET h == get(registry, id) IN
         IF ~Controllable(h) THEN ApiResponse_success(op, id, h.run_result, "none")
         ELSE IF ~IsSome(h.run_result.pid) THEN ApiResponse_error(op, id, "NO_PID", "none")
         ELSE IF kill_accepted(proc[id], ok)
              THEN ApiResponse_success(op, id,
                        ControlEntry(h, TRUE, clock[id]).run_result, sig)
              ELSE ApiResponse_error(op, id, errcode, sig)

RECURSIVE Signalled(_)
Signalled(n) ==
    IF n = 0 THEN 0
    ELSE (IF signals[n] # <<>> THEN 1 ELSE 0) + Signalled(n - 1)

Control(op, sig, errcode, id, ok, dies) ==
    /\ resp = NoResp
    /\ contains_key(registry, id) /\ PidReused(proc[id], ok) => faults < MaxFaults
    /\ ControlResponse(op, sig, errcode, id, ok).delivered =>
            signals[id] # <<>> \/ Signalled(NumRuns) < MaxSignals
    /\ resp' = ControlResponse(op, sig, errcode, id, ok)
    /\ probes' = <<>>
    /\ UNCHANGED FarVars
    /\ control_result' = IF resp'.delivered
                         THEN [control_result EXCEPT ![id] = resp'.data]
                         ELSE control_result
    /\ IF resp'.signal = "none"
       THEN UNCHANGED <<registry, proc, signals, clock>>
       ELSE LET accepted == kill_accepted(proc[id], ok) IN
            /\ registry' = insert(registry, id,
                                  ControlEntry(get(registry, id), accepted, clock[id]))
            /\ signals' = IF accepted
                          THEN [signals EXCEPT ![id] =
                                   Append(@, [sig |-> sig, target |-> SignalTarget(proc[id])])]
                          ELSE signals
            /\ proc' = IF accepted
                       THEN [proc EXCEPT ![id] = ProcAfterSignal(@, sig, dies)]
                       ELSE proc
            /\ clock' = IF accepted THEN [clock EXCEPT ![id] = @ + 1] ELSE clock
    /\ faults' = IF resp'.delivered /\ PidReused(proc[id], ok) THEN faults + 1 ELSE faults
    /\ UNCHANGED <<pc, run_result, start_time, status_result, readers, events, cleanup>>

\* the outcomes the OS can give a signal sent for run id: the pid can be gone
\* (ok FALSE) only once the child is reaped, and only a running child can
\* survive a signal (dies FALSE)
OsOutcome(id, ok, dies) ==
    /\ ~ok => proc[id].state = "reaped"
    /\ ~dies => proc[id].state = "alive"

stop_eliza_run(id, ok, dies) ==
    /\ OsOutcome(id, ok, dies)
    /\ Control("stop_eliza_run", "SIGTERM", "STOP_ERROR", id, ok, dies)

kill_eliza_run(id, ok) ==
    /\ OsOutcome(id, ok, TRUE)
    /\ Control("kill_eliza_run", "SIGKILL", "KILL_ERROR", id, ok, TRUE)

\* ---------------------------------------------------------- get_run_result
get_run_result(id) ==
    /\ resp = NoResp
    /\ resp' = IF contains_key(registry, id)
               THEN ApiResponse_success("get_run_result", id, get(registry, id).run_result, "none")
               ELSE NotFound("get_run_result", id)
    /\ probes' = <<>>
    /\ UNCHANGED FarVars
    /\ UNCHANGED <<registry, pc, run_result, start_time, status_result, proc,
                   readers, events, cleanup, signals, clock, faults, control_result>>

\* the command's Ok(ApiResponse) reaches the frontend, which makes its next
\* call only then
ResponseDelivered ==
    /\ resp # NoResp
    /\ resp' = NoResp
    /\ probes' = <<>>
    /\ UNCHANGED FarVars
    /\ UNCHANGED <<registry, pc, run_result, start_time, status_result, proc,
                   readers, events, cleanup, signals, clock, faults, control_result>>

\* ----------------------------------------------------------- specification
Next ==
    \/ StartInvalidConfig
    \/ \E r \in RunIds, sid \in SpecIds, p1, p2 \in ProbeOutcomes :
            StartCliNotFound(r, sid, p1, p2)
    \/ \E r \in RunIds, sid \in SpecIds, p1, p2 \in ProbeOutcomes :
            StartSpawnFailed(r, sid, p1, p2)
    \/ \E r \in RunIds, sid \in SpecIds, p1, p2 \in ProbeOutcomes :
            StartSpawned(r, sid, p1, p2)
    \/ SimpleInvalidConfig
    \/ \E r \in RunIds, sid \in SpecIds, p1, p2 \in ProbeOutcomes :
            SimpleCliNotFound(r, sid, p1, p2)
    \/ \E r \in RunIds, sid \in SpecIds, p1, p2 \in ProbeOutcomes :
            SimpleSpawnFailed(r, sid, p1, p2)
    \/ \E r \in RunIds, sid \in SpecIds, p1, p2 \in ProbeOutcomes :
            SimpleSpawned(r, sid, p1, p2)
    \/ \E r \in RunIds, res \in {"ok", "err"} : SimpleWaitReturns(r, res)
    \/ \E r \in RunIds : Register(r)
    \/ \E r \in RunIds : ProcWriteStdout(r)
    \/ \E r \in RunIds : ProcWriteStderr(r)
    \/ \E r \in RunIds, st \in {"exit0", "exit1", "signal"} : ProcExit(r, st)
    \/ \E r \in RunIds : ReadStdout(r)
    \/ \E r \in RunIds : ReadStderr(r)
    \/ \E r \in RunIds, why \in {"eof", "error"} : EndStdout(r, why)
    \/ \E r \in RunIds, why \in {"eof", "error"} : EndStderr(r, why)
    \/ \E r \in RunIds, res \in {"ok", "err"} : WaitReturns(r, res)
    \/ \E r \in RunIds : Finalize(r)
    \/ \E r \in RunIds : Cleanup(r)
    \/ \E id \in RunIds, ok \in BOOLEAN, dies \in BOOLEAN : stop_eliza_run(id, ok, dies)
    \/ \E id \in RunIds, ok \in BOOLEAN : kill_eliza_run(id, ok)
    \/ \E id \in RunIds : get_run_result(id)
    \/ ResponseDelivered

Spec == Init /\ [][Next]_vars

\* The tokio runtime keeps polling every spawned task that can make progress:
\* the supervisor (insert, wait, join, write-back), the two readers (a line or
\* the end of a drained pipe) and the cleanup task (its sleep ends).  Nothing
\* obliges a child to exit, a caller to call, or the OS to fail.
Fairness ==
    \A r \in RunIds :
        /\ WF_vars(Register(r))
        /\ WF_vars(ReadStdout(r))
        /\ WF_vars(ReadStderr(r))
        /\ WF_vars(EndStdout(r, "eof"))
        /\ WF_vars(EndStderr(r, "eof"))
        /\ WF_vars(WaitReturns(r, "ok"))
        /\ WF_vars(Finalize(r))
        /\ WF_vars(Cleanup(r))

\* one submission, followed from its start to the purge of its entry: runs
\* share nothing but the registry map, in which each has its own key
OneRun == \A r \in RunIds : r > 1 => pc[r] = "idle"
LiveNext == Next /\ OneRun'

LiveSpec == Init /\ [][LiveNext]_vars /\ Fairness

\* the builders and sanitizers, applied to every input of the bounded sets
StrLists == UNION {[1..n -> Strs] : n \in 1..MaxArgs}

PureNext ==
    \/ \E spec \in BuilderSpecs, use_npx \in BOOLEAN : ApplyBuildArgs(spec, use_npx)
    \/ \E args \in StrLists : ApplySanitizeArgs(args)
    \/ \E args \in StrLists : ApplySafeArgs(args)
    \/ \E config \in Configs : ApplySanitizeConfig(config)

PureSpec == Init /\ [][PureNext]_vars

\* one call of post_telemetry_event, with every outcome of every attempt
TelemetryNext ==
    \/ \E built \in BOOLEAN : post_telemetry_event(built)
    \/ \E outcome \in SendOutcomes : send_telemetry_request(outcome)
    \/ retry_sleep_elapsed

TelemetrySpec == Init /\ [][TelemetryNext]_vars

\* the terminal commands, their executions taken as single steps
TermNext ==
    \/ \E command \in TermCommands : TermBlocked(command)
    \/ \E command \in TermCommands, tick \in {0, 1} : TermRegister(command, tick, FALSE)
    \/ \E id \in TermIds, res \in {"exit0", "exit1", "signal", "err"} : TermReturns(id, res)
    \/ \E id \in TermIds, ok \in BOOLEAN : cancel_terminal_command(id, ok)
    \/ cleanup_terminal_processes

TermSpec == Init /\ [][TermNext]_vars

\* one terminal command, its execution followed line by line
DrainNext ==
    \/ \E command \in Commands : TermRegister(command, 1, TRUE)
    \/ \E o, e \in 0..MaxWrite, st \in {"exit0", "exit1"} : DrainSpawn(o, e, st)
    \/ \E kind \in {"NotFound", "PermissionDenied"} : DrainSpawnFailed(kind)
    \/ ChildWriteStdout
    \/ ChildWriteStderr
    \/ ChildExit
    \/ DrainReadStdout
    \/ DrainStdoutEof
    \/ DrainReadStderr
    \/ DrainStderrEof
    \/ DrainReadError
    \/ DrainWait
    \/ \E id \in TermIds, res \in {"exit0", "exit1", "err"} : TermReturns(id, res)
    \/ \E id \in TermIds, ok \in BOOLEAN : cancel_terminal_command(id, ok)

\* the child writes what it has to write and exits once it can; the runtime
\* polls the command's future whenever it can make progress
DrainFairness ==
    /\ WF_vars(\E o, e \in 0..MaxWrite, st \in {"exit0", "exit1"} : DrainSpawn(o, e, st))
    /\ WF_vars(ChildWriteStdout)
    /\ WF_vars(ChildWriteStderr)
    /\ WF_vars(ChildExit)
    /\ WF_vars(DrainReadStdout)
    /\ WF_vars(DrainStdoutEof)
    /\ WF_vars(DrainReadStderr)
    /\ WF_vars(DrainStderrEof)
    /\ WF_vars(DrainWait)
    /\ WF_vars(\E id \in TermIds, res \in {"exit0", "exit1", "err"} : TermReturns(id, res))

DrainSpec == Init /\ [][DrainNext]_vars /\ DrainFairness

\* the operations that take the registry locks, in every interleaving
LockNext ==
    \/ \E o \in Ops, kind \in OpKinds, r \in RunIds : OpBegin(o, kind, r)
    \/ \E o \in Ops : OpRequest(o)
    \/ \E o \in Ops : RwGrant(o)
    \/ \E o \in Ops : MuGrant(o)
    \/ \E o \in Ops : OpFinish(o)

\* an operation that can run is polled; a free lock is handed to its first waiter
LockFairness ==
    \A o \in Ops :
        /\ WF_vars(OpRequest(o))
        /\ WF_vars(RwGrant(o))
        /\ WF_vars(MuGrant(o))
        /\ WF_vars(OpFinish(o))

LockSpec == Init /\ [][LockNext]_vars /\ LockFairness

TypeOK ==
    /\ \A r \in RunIds : pc[r] \in {"idle", "spawned", "simple", "waiting", "joining", "returned"}
    /\ \A r \in RunIds : contains_key(registry, r) =>
            get(registry, r).run_result.status \in RunStatus

\* ------------------------------------------------------------- properties
IsControl(rp) == rp.op \in {"stop_eliza_run", "kill_eliza_run"}
Entry(r) == get(registry, r)
IsPrefix(s, t) == Len(s) <= Len(t) /\ SubSeq(t, 1, Len(s)) = s

\* C1: once an entry's status is Completed, Failed or Killed no step changes
\* it, and the only changes of a status are Running -> terminal.
C1_TerminalAbsorbing ==
    [][\A r \in RunIds :
         (contains_key(registry, r) /\ contains_key(registry', r)) =>
            LET old == get(registry, r).run_result.status
                new == get(registry', r).run_result.status
            IN /\ old \in Terminal => new = old
               /\ old = "Running" => new \in {"Running"} \cup Terminal]_vars

\* C2: every entry with can_control true has its pid populated and status Running.
C2_ControlImpliesRunning ==
    \A r \in RunIds :
        (contains_key(registry, r) /\ Entry(r).can_control) =>
            /\ IsSome(Entry(r).run_result.pid)
            /\ Entry(r).run_result.status = "Running"

\* a controllable entry whose child has already been waited for
C2_Witness ==
    \E r \in RunIds :
        /\ contains_key(registry, r) /\ Entry(r).can_control
        /\ pc[r] = "joining"

\* C3: when a stop/kill call delivered its signal to the running child, the
\* terminal status observed afterwards (get_run_result once the supervisor
\* has finalized, and the RunResult the streaming submission returns) is Killed.
C3_KilledIsObserved ==
    \A r \in RunIds :
        ( /\ resp.id = r /\ resp.code = "OK"
          /\ IsSome(control_result[r])
          /\ signals[r] # <<>> /\ signals[r][1].target = "child"
          /\ \/ resp.op = "start_eliza_run_streaming"
             \/ resp.op = "get_run_result" /\ cleanup[r] = "sleeping" )
        => resp.data[1].status = "Killed"

\* C4: after a stop/kill call on a run has succeeded, every later stop/kill
\* call on that run, while its entry is present, succeeds and returns the
\* same RunResult as that call.
C4_ControlIdempotent ==
    ( /\ IsControl(resp)
      /\ contains_key(registry, resp.id)
      /\ IsSome(control_result[resp.id]) )
    => /\ resp.code = "OK"
       /\ resp.data = control_result[resp.id]

\* C5: after a stop/kill call whose signal was delivered, the stored entry has
\* status Killed, ended_at set, duration_ms set and can_control false, and the
\* call returned exactly that RunResult.
C5_DeliveredMarksKilled ==
    (IsControl(resp) /\ resp.delivered) =>
        LET h == Entry(resp.id)
        IN /\ h.run_result.status = "Killed"
           /\ IsSome(h.run_result.ended_at)
           /\ IsSome(h.run_result.duration_ms)
           /\ ~h.can_control
           /\ resp.data = Some(h.run_result)

\* C6: a stop (kill) call whose signal delivery fails returns STOP_ERROR
\* (KILL_ERROR) and leaves the registry as it was, the entry still Running,
\* controllable and without ended_at, so that a retry attempts delivery again.
C6_FailedDeliveryChangesNothing ==
    [][\A id \in RunIds :
         (IsControl(resp') /\ resp'.id = id /\ resp'.signal # "none" /\ ~resp'.delivered) =>
            /\ resp'.code = IF resp'.op = "stop_eliza_run" THEN "STOP_ERROR" ELSE "KILL_ERROR"
            /\ registry' = registry
            /\ signals' = signals
            /\ get(registry', id).run_result.status = "Running"
            /\ get(registry', id).can_control
            /\ get(registry', id).run_result.ended_at = None
            /\ \A ok \in BOOLEAN :
                 ControlResponse("stop_eliza_run", "SIGTERM", "STOP_ERROR", id, ok)'.signal
                    = "SIGTERM"]_vars

C6_Witness ==
    /\ resp.code \in {"STOP_ERROR", "KILL_ERROR"}
    /\ contains_key(registry, resp.id)
    /\ Entry(resp.id).can_control

\* C7: get_run_result, stop_eliza_run and kill_eliza_run on an id without a
\* registry entry return NOT_FOUND, deliver no signal and change nothing.
C7_AbsentIdNotFound ==
    [][( /\ resp'.op \in {"get_run_result", "stop_eliza_run", "kill_eliza_run"}
         /\ ~contains_key(registry, resp'.id) ) =>
         /\ resp'.code = "NOT_FOUND"
         /\ resp'.signal = "none"
         /\ registry' = registry
         /\ signals' = signals
         /\ proc' = proc]_vars

\* NOT_FOUND for the id of a run whose entry the cleanup has purged
C7_Witness ==
    /\ resp.code = "NOT_FOUND"
    /\ IsControl(resp)
    /\ cleanup[resp.id] = "done"

\* C8: a stop/kill call on an entry whose can_control is false succeeds,
\* delivers no signal, leaves the entry as it was and returns the stored RunResult.
C8_UncontrollableIsNoop ==
    [][( /\ IsControl(resp')
         /\ contains_key(registry, resp'.id)
         /\ ~get(registry, resp'.id).can_control ) =>
         /\ resp'.code = "OK"
         /\ resp'.signal = "none"
         /\ resp'.data = Some(get(registry, resp'.id).run_result)
         /\ registry' = registry
         /\ signals' = signals
         /\ proc' = proc]_vars

\* a no-op stop/kill on an entry that a previous call marked Killed
C8_Witness ==
    /\ IsControl(resp) /\ resp.code = "OK" /\ resp.signal = "none"
    /\ contains_key(registry, resp.id)
    /\ Entry(resp.id).run_result.status = "Killed"

AllOrNone(rr) ==
    \/ rr.ended_at = None /\ rr.exit_code = None /\ rr.duration_ms = None
    \/ IsSome(rr.ended_at) /\ IsSome(rr.exit_code) /\ IsSome(rr.duration_ms)

WrittenOnce(old, new) == IsSome(old) => new = old

\* C9: in every stored or returned RunResult ended_at, exit_code and
\* duration_ms are all unset or all set, and none of them is overwritten once set.
C9_EndFieldsTogetherOnce ==
    [][/\ \A r \in RunIds :
            contains_key(registry', r) =>
                /\ AllOrNone(get(registry', r).run_result)
                /\ contains_key(registry, r) =>
                    /\ WrittenOnce(get(registry, r).run_result.ended_at,
                                   get(registry', r).run_result.ended_at)
                    /\ WrittenOnce(get(registry, r).run_result.exit_code,
                                   get(registry', r).run_result.exit_code)
                    /\ WrittenOnce(get(registry, r).run_result.duration_ms,
                                   get(registry', r).run_result.duration_ms)
       /\ (resp'.op = "start_eliza_run_streaming" /\ IsSome(resp'.data)) =>
            AllOrNone(resp'.data[1])]_vars

\* C10: the stored stdout and stderr of an entry only grow at the end, and do
\* not change once the stored status is terminal.
C10_OutputAppendOnly ==
    [][\A r \in RunIds :
         (contains_key(registry, r) /\ contains_key(registry', r)) =>
            LET old == get(registry, r).run_result
                new == get(registry', r).run_result
            IN /\ IsPrefix(old.stdout, new.stdout)
               /\ IsPrefix(old.stderr, new.stderr)
               /\ old.status \in Terminal =>
                    new.stdout = old.stdout /\ new.stderr = old.stderr]_vars

\* the contents of the line events of one stream of run r, in emission order
EventLines(r, kind) ==
    LET es == SelectSeq(events[r], LAMBDA e : e.kind = kind)
    IN [i \in 1..Len(es) |-> es[i].content]

IsStart(rp) == rp.op \in {"start_eliza_run", "start_eliza_run_streaming"}

\* C11: a get_run_result on a Running streaming run returns a RunResult whose
\* stdout (stderr) begins with every stdout (stderr) line event emitted so far.
C11_LinesReachRegistry ==
    (resp.op = "get_run_result" /\ resp.code = "OK" /\ resp.data[1].status = "Running") =>
        /\ IsPrefix(EventLines(resp.id, "stdout"), resp.data[1].stdout)
        /\ IsPrefix(EventLines(resp.id, "stderr"), resp.data[1].stderr)

\* C12: when the supervisor finalizes a streaming run, the captured stdout and
\* the stdout line events are exactly the lines the child wrote to stdout, in
\* order; likewise for stderr (the capture may end with the supervisor's own
\* line about a failed wait).
C12_CaptureEqualsWritten ==
    [][\A r \in RunIds :
         (pc[r] = "joining" /\ pc'[r] = "returned") =>
            LET rr == resp'.data[1]
            IN /\ rr.stdout = Lines(proc[r].outW)
               /\ EventLines(r, "stdout")' = Lines(proc[r].outW)
               /\ rr.stderr \in {Lines(proc[r].errW),
                                  Append(Lines(proc[r].errW), "Process wait failed")}
               /\ EventLines(r, "stderr")' = Lines(proc[r].errW)]_vars

\* the readers of run r have been started
ReadersStarted(r) == pc[r] \in {"waiting", "joining"}

HasSpawnError(rr) ==
    \E i \in 1..Len(rr.stderr) :
        rr.stderr[i] \in {"Failed to start process", "Failed to spawn process"}

\* C14: the RunResult a submission returns is Running, or Failed because the
\* spawn failed; never the record of a process that ran to its exit.
C14_SubmissionReturnsInitial ==
    (IsStart(resp) /\ resp.code = "OK") =>
        \/ resp.data[1].status = "Running"
        \/ resp.data[1].status = "Failed" /\ HasSpawnError(resp.data[1])

\* C15: an entry carries a status set by the supervisor (Completed, Failed)
\* only together with ended_at, duration_ms and can_control false; the step
\* that writes it is taken after the wait has returned and both readers have
\* ended, and writes the captured output and all end fields at once.
C15_FinalizationAtomic ==
    /\ [](\A r \in RunIds :
            (contains_key(registry, r)
             /\ Entry(r).run_result.status \in {"Completed", "Failed"}) =>
                /\ ~Entry(r).can_control
                /\ IsSome(Entry(r).run_result.ended_at)
                /\ IsSome(Entry(r).run_result.duration_ms)
                /\ pc[r] = "returned" /\ cleanup[r] = "sleeping")
    /\ [][\A r \in RunIds :
            ( /\ contains_key(registry, r) /\ contains_key(registry', r)
              /\ get(registry', r).run_result.status \in {"Completed", "Failed"} ) =>
                \/ registry'[r] = registry[r]
                \/ /\ pc[r] = "joining" /\ status_result[r] # "pending"
                   /\ readers[r].out.done /\ readers[r].err.done
                   /\ get(registry', r).run_result.stdout = readers[r].out.lines
                   /\ IsPrefix(readers[r].err.lines, get(registry', r).run_result.stderr)
                   /\ Some(get(registry', r).run_result) = resp'.data]_vars

\* a finalized entry of a run whose child exited with code 0
C15_Witness ==
    \E r \in RunIds :
        /\ contains_key(registry, r)
        /\ Entry(r).run_result.status = "Completed"
        /\ Entry(r).run_result.stdout # <<>>

\* the RunResult a returning submission hands to its caller
Returned(rp) == rp.data[1]
WaitFailed(rr) ==
    \E i \in 1..Len(rr.stderr) :
        rr.stderr[i] \in {"Process wait failed", "Failed to wait for process"}

\* C16: when the supervisor of a run that no stop/kill call signalled records
\* the outcome, the status is Completed exactly if the wait succeeded and the
\* child exited with code 0, and Failed otherwise; the exit_code is the
\* child's exit code if the wait succeeded, and absent if it failed or the
\* child ended without one.  The streaming path stores the same record.
C16_StatusFromExit ==
    [][\A r \in RunIds :
         ( /\ pc[r] \in {"joining", "simple"} /\ pc'[r] = "returned"
           /\ signals[r] = <<>> ) =>
            LET rr == Returned(resp')
                waited == IF pc[r] = "joining" THEN status_result[r] # "err"
                          ELSE ~WaitFailed(rr)
            IN /\ rr.status = IF waited /\ proc[r].exit = "exit0"
                              THEN "Completed" ELSE "Failed"
               /\ rr.exit_code = IF waited THEN code(proc[r].exit) ELSE None
               /\ waited => proc[r].exit # "none"
               /\ pc[r] = "joining" => get(registry', r).run_result = rr]_vars

\* a streaming run recorded as Failed because its child exited with code 1
C16_Witness ==
    /\ resp.op = "start_eliza_run_streaming" /\ resp.code = "OK"
    /\ resp.data[1].status = "Failed"
    /\ resp.data[1].exit_code = Some(1)
    /\ signals[resp.id] = <<>>

\* the supervisor's write-back has happened for the entry of run r
Finalized(r) == pc[r] = "returned" /\ ~Entry(r).can_control

\* C17: from its finalization until the cleanup task's delay has elapsed the
\* entry of a run is present and holds the final result unchanged; an entry
\* leaves the registry only through that cleanup, hence only after
\* finalization; and every registered run whose process has exited is
\* eventually absent from the registry.
C17_GraceThenPurged ==
    /\ [](\A r \in RunIds : cleanup[r] = "sleeping" =>
                contains_key(registry, r) /\ Finalized(r))
    /\ [][\A r \in RunIds :
            /\ (cleanup[r] = "sleeping" /\ cleanup'[r] = "sleeping") =>
                    registry'[r] = registry[r]
            /\ (contains_key(registry, r) /\ ~contains_key(registry', r)) =>
                    cleanup[r] = "sleeping" /\ Finalized(r) /\ cleanup'[r] = "done"]_vars
    /\ \A r \in RunIds :
            (contains_key(registry, r) /\ proc[r].state \in {"zombie", "reaped"})
                ~> ~contains_key(registry, r)

\* a finalized entry waiting for its cleanup, the run having been registered
C17_Witness ==
    \E r \in RunIds :
        /\ cleanup[r] = "sleeping"
        /\ contains_key(registry, r)
        /\ Entry(r).run_result.status \in Terminal

\* C18: distinct runs have distinct registry keys, and the RunResults of
\* distinct runs carry distinct ids.
C18_DistinctIds ==
    \A r1, r2 \in RunIds :
        (r1 # r2 /\ contains_key(registry, r1) /\ contains_key(registry, r2)) =>
            /\ Entry(r1).run_result.started_at # Entry(r2).run_result.started_at
            /\ Entry(r1).run_result.id # Entry(r2).run_result.id

\* no probe of the step just taken succeeded
NoProbeOk == \A i \in 1..Len(probes) : ~probes[i].ok

\* C19: a submission probes elizaos first and npx second, the second exactly
\* if the first did not succeed; if none succeeds it fails with CliNotFound,
\* has spawned no child and has no registry entry, then and ever after.
C19_ProbeOrderAndNotFound ==
    /\ probes # <<>> =>
            /\ probes[1].cmd = "elizaos"
            /\ Len(probes) = IF probes[1].ok THEN 1 ELSE 2
            /\ Len(probes) = 2 => probes[2].cmd = "npx"
            /\ NoProbeOk =>
                    /\ IsStart(resp)
                    /\ resp.code = "START_ERROR" /\ resp.message = "CliNotFound"
                    /\ proc[resp.id].state = "none"
                    /\ pc[resp.id] = "returned" /\ cleanup[resp.id] = "none"
    /\ \A r \in RunIds :
            (pc[r] = "returned" /\ cleanup[r] = "none") =>
                ~contains_key(registry, r) /\ proc[r].state = "none"

\* both probes ran and neither succeeded
C19_Witness ==
    /\ Len(probes) = 2 /\ NoProbeOk
    /\ resp.op = "start_eliza_run_streaming"
    /\ resp.message = "CliNotFound"

\* a submission that resolved the command and returned in the same step: the
\* OS refused the spawn
SpawnRefused == IsStart(resp) /\ probes # <<>> /\ ~NoProbeOk

\* C20: a submission whose spawn the OS refused yields a RunResult with
\* status Failed and the spawn error as a stderr line, and leaves no registry
\* entry and no child for the run.
C20_SpawnFailureYieldsFailed ==
    SpawnRefused =>
        /\ resp.code = "OK"
        /\ resp.data[1].status = "Failed"
        /\ HasSpawnError(resp.data[1])
        /\ ~contains_key(registry, resp.id)
        /\ proc[resp.id].state = "none"

\* ------------------------------------------------- builders and sanitizers
Has(seq, x) == \E i \in 1..Len(seq) : seq[i] = x
Count(seq, x) == Cardinality({i \in 1..Len(seq) : seq[i] = x})
RunnerPrefix == <<"-y", "@elizaos/cli@latest">>

\* C24: the loggable form of an argument list or a config never shows more
\* than the first 12 characters of a value starting with "eliza_" (a longer
\* one is cut to 12 characters followed by "***"), and a value that is not a
\* secret is shown unchanged; for sanitize_args_for_logging, for the inline
\* safe_args and for sanitize_config_for_log.
C24_SecretsTruncated ==
    call.fn \in {"sanitize_args_for_logging", "safe_args", "sanitize_config_for_log"} =>
        /\ ~call.output.panic
        /\ \A i \in 1..Len(call.input) :
              LET v == call.input[i]
                  shown == call.output.items[i]
              IN /\ v.secret => /\ shown.shown <= ShownLen
                                /\ v.len > ShownLen => shown = Truncated
                 /\ (~v.secret /\ call.fn # "sanitize_config_for_log") =>
                        shown = Verbatim(v)

\* C25: for mode Doctor the argument vector contains "start", "--mode" and
\* "diagnostic" and every extra argument of the RunSpec, with or without the
\* runner prefix.
C25_DoctorDiagnostic ==
    (call.fn = "build_eliza_args" /\ call.input.spec.mode = "Doctor") =>
        /\ Has(call.output, "start")
        /\ Has(call.output, "--mode")
        /\ Has(call.output, "diagnostic")
        /\ \A i \in 1..Len(call.input.spec.args) :
              Has(call.output, call.input.spec.args[i])

\* C26: every caller argument occurs in the argument vector exactly as often
\* as in RunSpec.args, and the runner prefix is present exactly when use_npx.
C26_ArgsOnceEach ==
    call.fn = "build_eliza_args" =>
        /\ \A a \in CallerArgs :
              Count(call.output, a) = Count(call.input.spec.args, a)
        /\ IsPrefix(RunnerPrefix, call.output) <=> call.input.use_npx

\* ------------------------------------------------------ failures and order
\* C21: a run whose wait failed is finalized Failed with the diagnostic line,
\* can_control false and the cleanup scheduled; every registered run whose
\* wait has returned eventually has a terminal status (or is purged).
C21_WaitReturnedThenTerminal ==
    /\ [][\A r \in RunIds :
            (pc[r] = "joining" /\ status_result[r] = "err" /\ pc'[r] = "returned") =>
                /\ contains_key(registry', r)
                /\ get(registry', r).run_result.status = "Failed"
                /\ Has(get(registry', r).run_result.stderr, "Process wait failed")
                /\ ~get(registry', r).can_control
                /\ cleanup'[r] = "sleeping"]_vars
    /\ \A r \in RunIds :
            (contains_key(registry, r) /\ pc[r] = "joining")
                ~> (~contains_key(registry, r) \/ Entry(r).run_result.status \in Terminal)

\* the step is a read error on the given stream of run r
ReadErrorOut(r) == faults' = faults + 1 /\ ~readers[r].out.done /\ readers'[r].out.done
ReadErrorErr(r) == faults' = faults + 1 /\ ~readers[r].err.done /\ readers'[r].err.done

\* C22: a read error on one stream ends only that stream's reader: its lines
\* are kept, the other reader is untouched and can still read every line
\* written to its stream, the wait and the child are untouched, and the run
\* is finalized with the captured lines and the status given by the exit.
C22_ReadErrorEndsOneReader ==
    /\ [][\A r \in RunIds :
            /\ ReadErrorOut(r) =>
                    /\ readers'[r].out.lines = readers[r].out.lines
                    /\ readers'[r].err = readers[r].err
                    /\ UNCHANGED <<pc, status_result, proc, registry, events>>
            /\ ReadErrorErr(r) =>
                    /\ readers'[r].err.lines = readers[r].err.lines
                    /\ readers'[r].out = readers[r].out
                    /\ UNCHANGED <<pc, status_result, proc, registry, events>>
            /\ (pc[r] = "joining" /\ pc'[r] = "returned" /\ status_result[r] # "err") =>
                    /\ get(registry', r).run_result.status =
                            (IF success(status_result[r]) THEN "Completed" ELSE "Failed")
                    /\ get(registry', r).run_result.stdout = readers[r].out.lines
                    /\ get(registry', r).run_result.stderr = readers[r].err.lines]_vars
    /\ [](\A r \in RunIds :
            /\ (pc[r] \in {"waiting", "joining"} /\ ~readers[r].err.done
                    /\ Len(readers[r].err.lines) < proc[r].errW) => ENABLED ReadStderr(r)
            /\ (pc[r] \in {"waiting", "joining"} /\ ~readers[r].out.done
                    /\ Len(readers[r].out.lines) < proc[r].outW) => ENABLED ReadStdout(r)
            /\ (pc[r] = "waiting" /\ proc[r].state = "zombie") => ENABLED WaitReturns(r, "ok"))

\* the stdout reader of a running child ended on a read error while a line
\* written to stderr is still unread
C22_Witness ==
    \E r \in RunIds :
        /\ readers[r].out.done /\ proc[r].state = "alive"
        /\ ~readers[r].err.done /\ Len(readers[r].err.lines) < proc[r].errW

\* C23: at most one signal is delivered to a run's process; after a delivery
\* every later stop or kill on the run sends nothing and changes nothing.
C23_NoDoubleSignal ==
    /\ [](\A r \in RunIds : Len(signals[r]) <= 1)
    /\ [][\A r \in RunIds :
            (signals[r] # <<>> /\ IsControl(resp') /\ resp'.id = r) =>
                /\ resp'.signal = "none"
                /\ UNCHANGED <<registry, proc, signals, control_result>>]_vars

\* a stop or kill answered without a signal for a run that was signalled
\* before and whose supervisor has not finalized yet
C23_Witness ==
    /\ IsControl(resp) /\ resp.signal = "none" /\ resp.code = "OK"
    /\ signals[resp.id] # <<>>
    /\ pc[resp.id] \in {"waiting", "joining"}

IsLineEvent(e) == e.kind \in {"stdout", "stderr"}
IsCompletion(e) ==
    e.kind = "system" /\ e.content \in {"Process completed successfully",
                                         "Process failed", "Process ended"}

C28_SpawnedIsRegistered ==
    \A r \in RunIds :
        (proc[r].state # "none" /\ pc[r] # "spawned") => contains_key(registry, r)

\* C29: a submission answered INVALID_CONFIG probes nothing, spawns nothing,
\* emits nothing and leaves the registry as it was.
C29_InvalidConfigNoEffect ==
    [][resp'.code = "INVALID_CONFIG" =>
            /\ resp'.op \in {"start_eliza_run", "start_eliza_run_streaming"}
            /\ resp'.data = None
            /\ probes' = <<>>
            /\ UNCHANGED <<registry, pc, run_result, start_time, status_result, proc,
                           readers, events, cleanup, signals, clock, faults,
                           control_result>>]_vars

\* the rejection arrives while another run is registered and running
C29_Witness ==
    /\ resp.code = "INVALID_CONFIG"
    /\ \E r \in RunIds : contains_key(registry, r) /\ proc[r].state = "alive"

\* C30: no signal of stop_eliza_run or kill_eliza_run is delivered to a pid
\* whose child the supervisor has already reaped.
C30_NoSignalAfterReap ==
    \A r \in RunIds :
        \A i \in 1..Len(signals[r]) : signals[r][i].target # "stranger"

\* ------------------------------------------------ escalation and isolation
\* C31: a kill_eliza_run on a registered run whose child is still running
\* (it ignored the SIGTERM of an earlier stop_eliza_run) delivers SIGKILL, and
\* the run is then finalized and its entry purged.
C31_EscalationDelivers ==
    /\ [][\A r \in RunIds :
            (resp'.op = "kill_eliza_run" /\ resp'.id = r
                /\ contains_key(registry, r) /\ proc[r].state = "alive") =>
                    resp'.delivered /\ resp'.signal = "SIGKILL"]_vars
    /\ \A r \in RunIds :
            (contains_key(registry, r) /\ resp.op = "kill_eliza_run"
                /\ resp.id = r /\ resp.code = "OK")
                ~> ~contains_key(registry, r)

\* C32: an entry is stored under the id of the RunResult it holds, the
\* RunResult a streaming submission returns carries that key as its id, and
\* started_at is not the run identifier.
C32_KeyIsResultId ==
    /\ \A r \in RunIds :
            contains_key(registry, r) =>
                /\ Entry(r).run_result.id = r
                /\ Entry(r).run_result.started_at # r
    /\ (resp.op = "start_eliza_run_streaming" /\ IsSome(resp.data)) =>
            resp.data[1].id = resp.id

\* every entry but the one stored under key a is left as it was
OthersUnchanged(a) == \A b \in RunIds : b # a => registry'[b] = registry[b]

\* C34: get_run_result changes no entry; stop_eliza_run and kill_eliza_run on
\* run a, and the finalization and the cleanup of run a, change at most the
\* entry stored under a.
C34_Isolation ==
    [][\A a \in RunIds :
        /\ (resp'.op = "get_run_result" /\ resp'.id = a) => registry' = registry
        /\ (IsControl(resp') /\ resp'.id = a) => OthersUnchanged(a)
        /\ (pc[a] = "joining" /\ pc'[a] = "returned") => OthersUnchanged(a)
        /\ (cleanup[a] = "sleeping" /\ cleanup'[a] = "done") =>
                /\ OthersUnchanged(a)
                /\ ~contains_key(registry', a)]_vars

\* the entry of one run has been purged while another run's entry is present
C34_Witness ==
    \E a, b \in RunIds :
        /\ a # b
        /\ cleanup[a] = "done" /\ ~contains_key(registry, a)
        /\ contains_key(registry, b) /\ Entry(b).can_control

\* C35: a streaming submission that emitted the start event and has returned
\* to its caller has emitted a completion event or an error event.
C35_StartThenOutcome ==
    \A r \in RunIds :
        (pc[r] = "returned" /\ events[r] # <<>>) =>
            \E i \in 1..Len(events[r]) :
                IsCompletion(events[r][i]) \/ events[r][i].kind = "error"

\* C36: every sanitizer returns a value for every argument list and every
\* config; none aborts.
C36_SanitizationTotal ==
    call.fn \in {"sanitize_args_for_logging", "safe_args", "sanitize_config_for_log"} =>
        ~call.output.panic


\* ---------------------------------------------------------------- telemetry
Sends(log) == {i \in 1..Len(log) : log[i].kind = "send"}
LastSend(log) == log[CHOOSE i \in Sends(log) : \A j \in Sends(log) : j <= i]

\* the attempts and sleeps made so far are those of the retry loop
RetrySequence(log) ==
    /\ Cardinality(Sends(log)) <= MAX_RETRY_ATTEMPTS
    /\ \A i \in Sends(log) : log[i].outcome = "ok" => i = Len(log)
    /\ \A i \in 1..Len(log) :
          log[i].kind = "sleep" =>
              /\ i > 1 /\ log[i - 1].kind = "send" /\ log[i - 1].outcome # "ok"
              /\ log[i - 1].attempt \in {1, 2}
              /\ log[i].ms = RETRY_DELAY * log[i - 1].attempt
              /\ (i < Len(log) => log[i + 1].kind = "send")
              /\ (i = Len(log) => telemetry.pc \in {"sleeping", "sending"})
    /\ \A i \in Sends(log) :
          /\ log[i].attempt = Cardinality({j \in Sends(log) : j <= i})
          /\ (i > 1 /\ log[i].attempt > 1) => log[i - 1].kind = "sleep"

\* C40: at most 3 send attempts; none after one that succeeded; a sleep only
\* between two attempts, of 1 s after the first failure and 2 s after the
\* second; success exactly if some attempt succeeded, otherwise the error of
\* the last attempt.
C40_LastAttemptError ==
    LET log == telemetry.log IN
    /\ RetrySequence(log)
    /\ telemetry.pc = "returned" =>
          /\ telemetry.result = Some("ok") <=> \E i \in Sends(log) : log[i].outcome = "ok"
          /\ telemetry.result # Some("ok") =>
                /\ Sends(log) # {}
                /\ telemetry.result = Some(LastSend(log).outcome)

\* C40, amended: as above, except that a call whose HTTP client cannot be
\* built makes no attempt and returns the error of the build; every other
\* failing call has made exactly 3 attempts and returns the error of the third.
C40_RetryDiscipline ==
    LET log == telemetry.log IN
    /\ RetrySequence(log)
    /\ telemetry.pc = "returned" =>
          /\ telemetry.result = Some("ok") <=> \E i \in Sends(log) : log[i].outcome = "ok"
          /\ (telemetry.result # Some("ok") /\ Sends(log) # {}) =>
                /\ telemetry.result = Some(LastSend(log).outcome)
                /\ Cardinality(Sends(log)) = MAX_RETRY_ATTEMPTS
          /\ (telemetry.result # Some("ok") /\ Sends(log) = {}) =>
                /\ log = <<>>
                /\ telemetry.result = Some("Failed to create HTTP client")

\* three failed attempts with different errors, two sleeps, the last error returned
C40_Witness ==
    /\ telemetry.pc = "returned"
    /\ Len(telemetry.log) = 5
    /\ telemetry.log[1].outcome = "timeout"
    /\ telemetry.log[2].ms = 1000
    /\ telemetry.log[4].ms = 2000
    /\ telemetry.log[5].outcome = "rate"
    /\ telemetry.result = Some("rate")

\* ----------------------------------------------------------- terminal registry
\* C37: a cancel_terminal_command for a registered command that is still
\* running ends with the signal sent (code "OK") and the entry's status
\* "killed"; NOT_FOUND is answered only for ids absent from the registry.
C37_CancelKillsRunning ==
    term_resp.op = "cancel_terminal_command" =>
        LET entry == term_get(term_registry, term_resp.id) IN
        /\ term_resp.code = "NOT_FOUND" => ~IsSome(entry)
        /\ (IsSome(entry) /\ term_resp.id \in term_executing) =>
                /\ term_resp.code = "OK"
                /\ entry[1].status = "killed"

\* the entries whose command has ended
Finished(reg) ==
    {id \in DOMAIN reg : reg[id].status \in {"completed", "failed"}}
\* the entries a step takes out of the terminal registry
TermRemoved == DOMAIN term_registry \ DOMAIN term_registry'
\* execute_terminal_command returns for a command it had registered
TermCompletion ==
    /\ term_executing' # term_executing
    /\ term_resp'.op = "execute_terminal_command"
    /\ term_resp'.code \in {"completed", "failed"}

\* C38: the terminal registry never holds more than 100 entries with status
\* "completed" or "failed"; an entry removed when a command completes has
\* ended, was started no later than every ended entry that stays, and is not
\* one of the commands still running; no more entries are removed than needed.
C38_RegistryBound ==
    /\ [](Cardinality(Finished(term_registry)) <= MAX_COMPLETED_PROCESSES)
    /\ [][TermCompletion =>
            \A k \in TermRemoved :
                /\ k \notin term_executing'
                /\ k = term_resp'.id \/ k \in Finished(term_registry)
                /\ \A j \in Finished(term_registry') :
                      term_registry[k].at <= term_registry'[j].at
                /\ Cardinality(Finished(term_registry')) = MAX_COMPLETED_PROCESSES]_vars

\* the completion of the 102nd command removed the second one, while the
\* first, started before it, is still running and stays
C38_Witness ==
    /\ term_resp.op = "execute_terminal_command"
    /\ term_resp.id = MaxCommands
    /\ 1 \in DOMAIN term_registry /\ term_registry[1].status = "running"
    /\ 2 \notin DOMAIN term_registry
    /\ Cardinality(Finished(term_registry)) = MAX_COMPLETED_PROCESSES

\* the entry of the command whose execution is followed has left "running"
DrainEnded ==
    /\ drain.id \in DOMAIN term_registry
    /\ term_registry[drain.id].status # "running"

\* C39: whatever the child writes to stdout and stderr, once it is spawned
\* the command's pipes are drained, its exit is observed and its registry
\* entry leaves status "running".
C39_CommandTerminates == (drain.child = "alive") ~> DrainEnded

\* ------------------------------------------------------------ registry locking
\* operation a is queued for a lock that operation b holds
WaitsFor(a, b) ==
    /\ lock_ops[a].pc = "waiting"
    /\ \/ /\ NextLock(lock_ops[a]) = "rw"
          /\ rw.writer = b \/ b \in rw.readers
       \/ /\ NextLock(lock_ops[a]) = "mu"
          /\ mu[lock_ops[a].run].holder = b

\* C33: no two operations on the registry ever wait on each other's locks,
\* and every operation that has started acquires the locks it asks for and
\* completes.
C33_NoLockDeadlock ==
    /\ [](\A a, b \in Ops : ~(WaitsFor(a, b) /\ WaitsFor(b, a)))
    /\ \A o \in Ops : (lock_ops[o].pc # "idle") ~> (lock_ops[o].pc = "idle")

\* two get_run_result calls share the read lock, one holds the entry's mutex
\* and the other is queued for it, while a writer is queued for the registry
C33_Witness ==
    \E a, b, c \in Ops, r \in RunIds :
        /\ {a, b} \subseteq rw.readers /\ a # b
        /\ mu[r].holder = a
        /\ mu[r].queue # <<>> /\ Head(mu[r].queue) = b
        /\ rw.queue # <<>> /\ Head(rw.queue) = c
        /\ WaitsFor(b, a) /\ WaitsFor(c, a) /\ WaitsFor(c, b)

====
